---- MODULE Spec2Model ----
(***************************************************************************)
(* CloudView: the AWS provider (pkg/providers/aws), its five service       *)
(* collectors and the resource model (pkg/models).                         *)
(*                                                                         *)
(* The AWS account the provider talks to is a small fixed world (the       *)
(* World* definitions).  An API request is identified by a record          *)
(* [api, scope, page]; a fault set is the set of requests that fail.       *)
(* Pointers that may be nil (a time.Time pointer) are sequences of length   *)
(* at most 1.                                                              *)
(* Go maps string->string are functions with a finite domain.              *)
(***************************************************************************)
EXTENDS Integers, Sequences, FiniteSets, Bags, TLC

\* ------------------------------------------------------------------------
\* Bounds of the model
\* ------------------------------------------------------------------------

\* items per page returned by the paginated list requests
PageSize == 1

\* creation timestamps range over 0..MaxTime
MaxTime == 3

\* ------------------------------------------------------------------------
\* Generic helpers
\* ------------------------------------------------------------------------

EmptyTags == [k \in {} |-> ""]

NoTime == <<>>

Range(s) == {s[i] : i \in 1..Len(s)}

RECURSIVE Flatten(_)
Flatten(ss) == IF ss = <<>> THEN <<>> ELSE Head(ss) \o Flatten(Tail(ss))

RECURSIVE SeqToBag(_)
SeqToBag(s) == IF s = <<>> THEN EmptyBag ELSE SetToBag({Head(s)}) (+) SeqToBag(Tail(s))

RECURSIVE Paginate(_, _)
Paginate(items, n) ==
  IF Len(items) <= n THEN <<items>>
  ELSE <<SubSeq(items, 1, n)>> \o Paginate(SubSeq(items, n + 1, Len(items)), n)

\* strings.EqualFold on the strings of the model: fold the upper-case spellings
Fold(s) ==
  CASE s = "EC2" -> "ec2"
    [] s = "S3" -> "s3"
    [] s = "RDS" -> "rds"
    [] s = "IAM" -> "iam"
    [] s = "VPC" -> "vpc"
    [] OTHER -> s

EqualFold(a, b) == Fold(a) = Fold(b)

\* ------------------------------------------------------------------------
\* pkg/models: the canonical resource
\* ------------------------------------------------------------------------

\* time.Now(): every resource is built after the newest item of the account
Now == MaxTime

StateUnknown == "unknown"
HealthHealthy == "healthy"
HealthUnhealthy == "unhealthy"
HealthWarning == "warning"
HealthUnknown == "unknown"

NewResource(id, name, resourceType, provider, region) ==
  [ID |-> id, Name |-> name, Type |-> resourceType, Provider |-> provider,
   Region |-> region,
   Status |-> [State |-> StateUnknown, Health |-> HealthUnknown],
   Tags |-> EmptyTags, CreatedAt |-> Now]

UpdateStatus(r, state, health) ==
  [r EXCEPT !.Status = [State |-> state, Health |-> health]]

HasTag(r, key) == key \in DOMAIN r.Tags

GetTag(r, key) == IF key \in DOMAIN r.Tags THEN r.Tags[key] ELSE ""

\* a provider tag list [{Key, Value}] written into a map, later entries win
RECURSIVE TagListToMap(_)
TagListToMap(tl) ==
  IF tl = <<>> THEN EmptyTags
  ELSE LET rest == TagListToMap(SubSeq(tl, 1, Len(tl) - 1))
           last == tl[Len(tl)]
       IN [k \in DOMAIN rest \cup {last.Key} |->
             IF k = last.Key THEN last.Value ELSE rest[k]]

\* the value of the first "Name" tag of a tag list, else the default
RECURSIVE NameFromTags(_, _)
NameFromTags(tl, dflt) ==
  IF tl = <<>> THEN dflt
  ELSE IF Head(tl).Key = "Name" THEN Head(tl).Value
  ELSE NameFromTags(Tail(tl), dflt)

\* ------------------------------------------------------------------------
\* pkg/types: ResourceFilters
\* ------------------------------------------------------------------------

NoFilters ==
  [Regions |-> <<>>, ResourceTypes |-> <<>>, Tags |-> EmptyTags,
   Status |-> <<>>, CreatedAfter |-> NoTime, CreatedBefore |-> NoTime]

\* ------------------------------------------------------------------------
\* pkg/config: the provider configuration
\* ------------------------------------------------------------------------

RegionEast == "us-east-1"
RegionWest == "us-west-2"

\* GetRegions() of the embedded BaseProviderConfig
GetRegions(cfg) == cfg.Regions

CfgRegions == [kind |-> "aws", Regions |-> <<RegionEast, RegionWest>>, Region |-> RegionEast]
CfgDefault == [kind |-> "aws", Regions |-> <<>>, Region |-> RegionEast]
CfgOther == [kind |-> "other", Regions |-> <<>>, Region |-> ""]
CfgNone == [kind |-> "none", Regions |-> <<>>, Region |-> ""]

\* ------------------------------------------------------------------------
\* The AWS account (environment)
\* ------------------------------------------------------------------------

Tag(k, v) == [Key |-> k, Value |-> v]

WorldInstances(region) ==
  CASE region = RegionEast ->
         << [Id |-> "i-1", State |-> "running", Tags |-> <<Tag("Name", "web"), Tag("Env", "prod")>>, Time |-> 1],
            [Id |-> "i-2", State |-> "stopped", Tags |-> <<>>, Time |-> 2] >>
    [] region = RegionWest ->
         << [Id |-> "i-3", State |-> "pending", Tags |-> <<Tag("Env", "dev")>>, Time |-> 3] >>
    [] OTHER -> <<>>

WorldBuckets ==
  << [Id |-> "b-1", Location |-> "", Tags |-> <<Tag("Env", "prod")>>, Time |-> 1],
     [Id |-> "b-2", Location |-> RegionWest, Tags |-> <<>>, Time |-> 2] >>

WorldDBInstances(region) ==
  CASE region = RegionEast ->
         << [Id |-> "db-1", State |-> "available", Tags |-> <<Tag("Env", "prod")>>, Time |-> 1] >>
    [] region = RegionWest ->
         << [Id |-> "db-2", State |-> "stopped", Tags |-> <<>>, Time |-> 2] >>
    [] OTHER -> <<>>

WorldDBClusters(region) ==
  CASE region = RegionWest ->
         << [Id |-> "cl-1", State |-> "creating", Tags |-> <<Tag("Env", "dev")>>, Time |-> 2] >>
    [] OTHER -> <<>>

WorldUsers ==
  << [Id |-> "alice", Tags |-> <<Tag("Env", "prod")>>, Time |-> 1],
     [Id |-> "bob", Tags |-> <<>>, Time |-> 3] >>

WorldRoles ==
  << [Id |-> "admin", Tags |-> <<Tag("Env", "prod")>>, Time |-> 2] >>

WorldPolicies ==
  << [Id |-> "pol-1", Tags |-> <<>>, Time |-> 2] >>

WorldVpcs(region) ==
  CASE region = RegionEast ->
         << [Id |-> "vpc-1", State |-> "available", Tags |-> <<Tag("Name", "main"), Tag("Env", "prod")>>, Time |-> 1] >>
    [] region = RegionWest ->
         << [Id |-> "vpc-2", State |-> "pending", Tags |-> <<>>, Time |-> 2] >>
    [] OTHER -> <<>>

WorldSecurityGroups(region) ==
  CASE region = RegionEast ->
         << [Id |-> "sg-1", Name |-> "default", Tags |-> <<Tag("Env", "dev")>>, Time |-> 1] >>
    [] OTHER -> <<>>

\* one API request: the operation, its scope (region, bucket or user) and page
Call(api, scope, page) == [api |-> api, scope |-> scope, page |-> page]

NoFault == {}

\* every request a collector or a status lookup can issue
ListApis ==
  {"ec2:DescribeInstances", "rds:DescribeDBInstances", "rds:DescribeDBClusters",
   "ec2:DescribeVpcs", "ec2:DescribeSecurityGroups", "s3:ListBuckets",
   "iam:ListUsers", "iam:ListRoles", "iam:ListPolicies", "s3:HeadBucket"}

\* ------------------------------------------------------------------------
\* Filter predicates (one per service, same clauses copied in each)
\* ------------------------------------------------------------------------

\* "if len(filters.ResourceTypes) > 0 { found := ...EqualFold(rt, alias)... }"
TypeClause(filters, aliases) ==
  Len(filters.ResourceTypes) > 0 =>
    \E i \in 1..Len(filters.ResourceTypes) :
      \E a \in aliases : EqualFold(filters.ResourceTypes[i], a)

\* "if len(filters.Regions) > 0 { found := resource.Region == region }"
RegionClause(resource, filters) ==
  Len(filters.Regions) > 0 =>
    \E i \in 1..Len(filters.Regions) : resource.Region = filters.Regions[i]

\* mutant: one matching pair is enough (disjunctive instead of conjunctive)
TagClauseAny(resource, filters) ==
  DOMAIN filters.Tags /= {} =>
    \E k \in DOMAIN filters.Tags :
      HasTag(resource, k) /\ GetTag(resource, k) = filters.Tags[k]

\* "for key, value := range filters.Tags { if !exists || v != value { return false } }"
TagClause(resource, filters) ==
  \A k \in DOMAIN filters.Tags :
    ~(~HasTag(resource, k) \/ GetTag(resource, k) /= filters.Tags[k])

\* "CreatedAfter != nil && CreatedAt.Before(*CreatedAfter)" and the twin for
\* CreatedBefore: each rejects
TimeClause(resource, filters) ==
  /\ ~(filters.CreatedAfter /= NoTime /\ resource.CreatedAt < filters.CreatedAfter[1])
  /\ ~(filters.CreatedBefore /= NoTime /\ resource.CreatedAt > filters.CreatedBefore[1])

EC2Aliases == {"ec2", "instance", "virtual_machine"}
S3Aliases == {"s3", "bucket", "object_storage"}
RDSAliases == {"rds", "rds_instance", "rds_cluster", "database", "postgres", "postgresql", "mysql"}
IAMAliases == {"iam", "iam_user", "iam_role", "iam_policy", "user", "role", "policy"}
VPCAliases == {"vpc", "network", "security_group", "firewall"}

EC2matchesFilters(resource, filters) ==
  /\ TypeClause(filters, EC2Aliases)
  /\ TimeClause(resource, filters)

S3matchesFilters(resource, filters) ==
  /\ TypeClause(filters, S3Aliases)
  /\ RegionClause(resource, filters)
  /\ TagClause(resource, filters)
  /\ TimeClause(resource, filters)

RDSmatchesFilters(resource, filters) ==
  /\ TypeClause(filters, RDSAliases)
  /\ RegionClause(resource, filters)
  /\ TagClause(resource, filters)
  /\ TimeClause(resource, filters)

IAMmatchesFilters(resource, filters) ==
  /\ TypeClause(filters, IAMAliases)
  /\ TagClause(resource, filters)
  /\ TimeClause(resource, filters)

VPCmatchesFilters(resource, filters) ==
  /\ TypeClause(filters, VPCAliases)
  /\ RegionClause(resource, filters)
  /\ TagClause(resource, filters)

\* ------------------------------------------------------------------------
\* Region resolution (the same function in the EC2, RDS and VPC services)
\* ------------------------------------------------------------------------

\* mutant: the primary region is not consulted
getRegionsToQueryNoPrimary(filterRegions, cfg) ==
  IF Len(filterRegions) > 0 THEN filterRegions
  ELSE IF Len(GetRegions(cfg)) > 0 THEN GetRegions(cfg)
  ELSE <<"us-east-1">>

\* EC2Service.getRegionsToQuery
getRegionsToQuery(filterRegions, cfg) ==
  IF Len(filterRegions) > 0 THEN filterRegions
  ELSE IF Len(GetRegions(cfg)) > 0 THEN GetRegions(cfg)
  ELSE IF cfg.Region /= "" THEN <<cfg.Region>>
  ELSE <<"us-east-1">>

\* RDSService.getRegionsToQuery
RDSgetRegionsToQuery(filterRegions, cfg) ==
  IF Len(filterRegions) > 0 THEN filterRegions
  ELSE LET configRegions == GetRegions(cfg)
       IN IF Len(configRegions) > 0 THEN configRegions
          ELSE IF cfg.Region /= "" THEN <<cfg.Region>>
          ELSE <<"us-east-1">>

\* VPCService.getRegionsToQuery
VPCgetRegionsToQuery(filterRegions, cfg) ==
  IF Len(filterRegions) > 0 THEN filterRegions
  ELSE LET configRegions == GetRegions(cfg)
       IN IF Len(configRegions) > 0 THEN configRegions
          ELSE IF cfg.Region /= "" THEN <<cfg.Region>>
          ELSE <<"us-east-1">>

\* ------------------------------------------------------------------------
\* Region-scoped collectors: EC2, RDS, VPC
\* ------------------------------------------------------------------------

\* the pages a paginator walks: all of them are requested, in order, unless
\* one fails; the request of page i fails when it is in the fault set
PageFails(api, region, pages, fault) ==
  \E i \in 1..Len(pages) : Call(api, region, i) \in fault

\* mutant: the loop stops at the first region whose fetch failed
RECURSIVE CollectRegionsStopping(_, _)
CollectRegionsStopping(perRegion, regions) ==
  IF regions = <<>> THEN <<>>
  ELSE LET r == perRegion[Head(regions)]
       IN IF r.err /= "nil" THEN <<>>
          ELSE r.res \o CollectRegionsStopping(perRegion, Tail(regions))

\* the loop of GetInstances / GetDatabases / GetClusters / GetVPCs /
\* GetSecurityGroups: a region whose fetch failed is logged and skipped
RECURSIVE CollectRegions(_, _)
CollectRegions(perRegion, regions) ==
  IF regions = <<>> THEN <<>>
  ELSE LET r == perRegion[Head(regions)]
       IN (IF r.err /= "nil" THEN <<>> ELSE r.res) \o CollectRegions(perRegion, Tail(regions))

Ok(res) == [res |-> res, err |-> "nil"]
Fail(msg) == [res |-> <<>>, err |-> msg]

mapInstanceHealthToHealth(state) ==
  CASE state = "running" -> HealthHealthy
    [] state \in {"stopped", "stopping"} -> HealthUnhealthy
    [] state = "pending" -> HealthWarning
    [] state = "terminated" -> HealthUnhealthy
    [] state = "shutting-down" -> HealthWarning
    [] OTHER -> HealthUnknown

convertInstanceToResource(instance, region) ==
  LET base == NewResource(instance.Id, NameFromTags(instance.Tags, instance.Id),
                          "virtual_machine", "aws", region)
      st == UpdateStatus(base, instance.State, mapInstanceHealthToHealth(instance.State))
  IN [st EXCEPT !.Tags = TagListToMap(instance.Tags), !.CreatedAt = instance.Time]

\* the server-side filters of DescribeInstances
buildEC2Filters(filters) ==
  (IF Len(filters.Status) > 0
     THEN {[Name |-> "instance-state-name", Key |-> "", Values |-> Range(filters.Status)]}
     ELSE {})
  \cup {[Name |-> "tag", Key |-> k, Values |-> {filters.Tags[k]}] : k \in DOMAIN filters.Tags}

\* what the EC2 API does with them: an instance is returned when it passes
\* every filter
InstancePassesEC2Filter(instance, f) ==
  IF f.Name = "instance-state-name" THEN instance.State \in f.Values
  ELSE LET tags == TagListToMap(instance.Tags)
       IN f.Key \in DOMAIN tags /\ tags[f.Key] \in f.Values

DescribeInstancesPages(region, ec2Filters) ==
  Paginate(SelectSeq(WorldInstances(region),
                     LAMBDA inst : \A f \in ec2Filters : InstancePassesEC2Filter(inst, f)),
           PageSize)

\* mutant: a failing page request ends the paging and the instances of the
\* pages read so far are returned
getInstancesInRegionPartial(region, filters, fault) ==
  LET pages == DescribeInstancesPages(region, buildEC2Filters(filters))
      failing == {i \in 1..Len(pages) : Call("ec2:DescribeInstances", region, i) \in fault}
      read == IF failing = {} THEN pages
              ELSE SubSeq(pages, 1, (CHOOSE i \in failing : \A j \in failing : i <= j) - 1)
      converted == [i \in 1..Len(Flatten(read)) |->
                      convertInstanceToResource(Flatten(read)[i], region)]
  IN Ok(SelectSeq(converted, LAMBDA r : EC2matchesFilters(r, filters)))

getInstancesInRegion(region, filters, fault) ==
  LET pages == DescribeInstancesPages(region, buildEC2Filters(filters))
  IN IF PageFails("ec2:DescribeInstances", region, pages, fault)
       THEN Fail("failed to describe instances")
       ELSE LET converted == [i \in 1..Len(Flatten(pages)) |->
                                convertInstanceToResource(Flatten(pages)[i], region)]
            IN Ok(SelectSeq(converted, LAMBDA r : EC2matchesFilters(r, filters)))

GetInstances(filters, cfg, fault) ==
  LET regions == getRegionsToQuery(filters.Regions, cfg)
      perRegion == [r \in Range(regions) |-> getInstancesInRegion(r, filters, fault)]
  IN Ok(CollectRegions(perRegion, regions))

mapDBStatusToHealth(status) ==
  CASE status = "available" -> HealthHealthy
    [] status \in {"creating", "starting", "rebooting", "upgrading",
                   "configuring-enhanced-monitoring"} -> HealthWarning
    [] status \in {"stopped", "stopping", "failed", "storage-full",
                   "incompatible-network", "incompatible-restore"} -> HealthUnhealthy
    [] OTHER -> HealthUnknown

convertDBInstanceToResource(instance, region) ==
  LET base == NewResource(instance.Id, instance.Id, "rds_instance", "aws", region)
      st == UpdateStatus(base, instance.State, mapDBStatusToHealth(instance.State))
  IN [st EXCEPT !.Tags = TagListToMap(instance.Tags), !.CreatedAt = instance.Time]

convertDBClusterToResource(cluster, region) ==
  LET base == NewResource(cluster.Id, cluster.Id, "rds_cluster", "aws", region)
      st == UpdateStatus(base, cluster.State, mapDBStatusToHealth(cluster.State))
  IN [st EXCEPT !.Tags = TagListToMap(cluster.Tags), !.CreatedAt = cluster.Time]

getDatabasesInRegion(region, filters, fault) ==
  LET pages == Paginate(WorldDBInstances(region), PageSize)
  IN IF PageFails("rds:DescribeDBInstances", region, pages, fault)
       THEN Fail("failed to describe DB instances")
       ELSE LET converted == [i \in 1..Len(Flatten(pages)) |->
                                convertDBInstanceToResource(Flatten(pages)[i], region)]
            IN Ok(SelectSeq(converted, LAMBDA r : RDSmatchesFilters(r, filters)))

getClustersInRegion(region, filters, fault) ==
  LET pages == Paginate(WorldDBClusters(region), PageSize)
  IN IF PageFails("rds:DescribeDBClusters", region, pages, fault)
       THEN Fail("failed to describe DB clusters")
       ELSE LET converted == [i \in 1..Len(Flatten(pages)) |->
                                convertDBClusterToResource(Flatten(pages)[i], region)]
            IN Ok(SelectSeq(converted, LAMBDA r : RDSmatchesFilters(r, filters)))

GetDatabases(filters, cfg, fault) ==
  LET regions == RDSgetRegionsToQuery(filters.Regions, cfg)
      perRegion == [r \in Range(regions) |-> getDatabasesInRegion(r, filters, fault)]
  IN Ok(CollectRegions(perRegion, regions))

GetClusters(filters, cfg, fault) ==
  LET regions == RDSgetRegionsToQuery(filters.Regions, cfg)
      perRegion == [r \in Range(regions) |-> getClustersInRegion(r, filters, fault)]
  IN Ok(CollectRegions(perRegion, regions))

mapVPCStateToHealth(state) ==
  CASE state = "available" -> HealthHealthy
    [] state = "pending" -> HealthWarning
    [] OTHER -> HealthUnknown

\* the VPC and security-group converters leave CreatedAt at NewResource's now
convertVPCToResource(vpc, region) ==
  LET base == NewResource(vpc.Id, NameFromTags(vpc.Tags, vpc.Id), "vpc", "aws", region)
      st == UpdateStatus(base, vpc.State, mapVPCStateToHealth(vpc.State))
  IN [st EXCEPT !.Tags = TagListToMap(vpc.Tags)]

convertSecurityGroupToResource(sg, region) ==
  LET base == NewResource(sg.Id, sg.Name, "security_group", "aws", region)
      st == UpdateStatus(base, "available", HealthHealthy)
  IN [st EXCEPT !.Tags = TagListToMap(sg.Tags)]

getVPCsInRegion(region, filters, fault) ==
  LET pages == Paginate(WorldVpcs(region), PageSize)
  IN IF PageFails("ec2:DescribeVpcs", region, pages, fault)
       THEN Fail("failed to describe VPCs")
       ELSE LET converted == [i \in 1..Len(Flatten(pages)) |->
                                convertVPCToResource(Flatten(pages)[i], region)]
            IN Ok(SelectSeq(converted, LAMBDA r : VPCmatchesFilters(r, filters)))

getSecurityGroupsInRegion(region, filters, fault) ==
  LET pages == Paginate(WorldSecurityGroups(region), PageSize)
  IN IF PageFails("ec2:DescribeSecurityGroups", region, pages, fault)
       THEN Fail("failed to describe security groups")
       ELSE LET converted == [i \in 1..Len(Flatten(pages)) |->
                                convertSecurityGroupToResource(Flatten(pages)[i], region)]
            IN Ok(SelectSeq(converted, LAMBDA r : VPCmatchesFilters(r, filters)))

GetVPCs(filters, cfg, fault) ==
  LET regions == VPCgetRegionsToQuery(filters.Regions, cfg)
      perRegion == [r \in Range(regions) |-> getVPCsInRegion(r, filters, fault)]
  IN Ok(CollectRegions(perRegion, regions))

GetSecurityGroups(filters, cfg, fault) ==
  LET regions == VPCgetRegionsToQuery(filters.Regions, cfg)
      perRegion == [r \in Range(regions) |-> getSecurityGroupsInRegion(r, filters, fault)]
  IN Ok(CollectRegions(perRegion, regions))

\* ------------------------------------------------------------------------
\* Account-wide collectors: S3, IAM
\* ------------------------------------------------------------------------

createBasicBucketResource(bucket, cfg) ==
  LET base == NewResource(bucket.Id, bucket.Id, "object_storage", "aws", cfg.Region)
  IN UpdateStatus([base EXCEPT !.CreatedAt = bucket.Time], "available", HealthHealthy)

\* GetBucketLocation: an empty location constraint means us-east-1
getBucketRegion(bucket, fault) ==
  IF Call("s3:GetBucketLocation", bucket.Id, 1) \in fault THEN [region |-> "", err |-> "error"]
  ELSE IF bucket.Location = "" THEN [region |-> "us-east-1", err |-> "nil"]
  ELSE [region |-> bucket.Location, err |-> "nil"]

\* GetBucketTagging: a failed request counts as "no tags", never as an error
getBucketTags(bucket, fault) ==
  IF Call("s3:GetBucketTagging", bucket.Id, 1) \in fault THEN EmptyTags
  ELSE TagListToMap(bucket.Tags)

getBucketDetails(bucket, cfg, fault) ==
  LET basic == createBasicBucketResource(bucket, cfg)
      loc == getBucketRegion(bucket, fault)
      region == IF loc.err /= "nil" THEN cfg.Region ELSE loc.region
  IN [basic EXCEPT !.Region = region, !.Tags = getBucketTags(bucket, fault)]

GetBuckets(filters, cfg, fault) ==
  IF Call("s3:ListBuckets", "", 1) \in fault THEN Fail("failed to list S3 buckets")
  ELSE LET detailed == [i \in 1..Len(WorldBuckets) |-> getBucketDetails(WorldBuckets[i], cfg, fault)]
       IN Ok(SelectSeq(detailed, LAMBDA r : S3matchesFilters(r, filters)))

convertUserToResource(user) ==
  LET base == NewResource(user.Id, user.Id, "iam_user", "aws", "global")
      st == UpdateStatus(base, "active", HealthHealthy)
  IN [st EXCEPT !.CreatedAt = user.Time, !.Tags = TagListToMap(user.Tags)]

convertRoleToResource(role) ==
  LET base == NewResource(role.Id, role.Id, "iam_role", "aws", "global")
      st == UpdateStatus(base, "active", HealthHealthy)
  IN [st EXCEPT !.CreatedAt = role.Time, !.Tags = TagListToMap(role.Tags)]

convertPolicyToResource(policy) ==
  LET base == NewResource(policy.Id, policy.Id, "iam_policy", "aws", "global")
      st == UpdateStatus(base, "active", HealthHealthy)
  IN [st EXCEPT !.CreatedAt = policy.Time, !.Tags = TagListToMap(policy.Tags)]

\* a failed page request makes the collector return (nil, err)
GetUsers(filters, fault) ==
  LET pages == Paginate(WorldUsers, PageSize)
  IN IF PageFails("iam:ListUsers", "", pages, fault) THEN Fail("failed to list IAM users")
     ELSE LET converted == [i \in 1..Len(WorldUsers) |-> convertUserToResource(WorldUsers[i])]
          IN Ok(SelectSeq(converted, LAMBDA r : IAMmatchesFilters(r, filters)))

GetRoles(filters, fault) ==
  LET pages == Paginate(WorldRoles, PageSize)
  IN IF PageFails("iam:ListRoles", "", pages, fault) THEN Fail("failed to list IAM roles")
     ELSE LET converted == [i \in 1..Len(WorldRoles) |-> convertRoleToResource(WorldRoles[i])]
          IN Ok(SelectSeq(converted, LAMBDA r : IAMmatchesFilters(r, filters)))

GetPolicies(filters, fault) ==
  LET pages == Paginate(WorldPolicies, PageSize)
  IN IF PageFails("iam:ListPolicies", "", pages, fault) THEN Fail("failed to list IAM policies")
     ELSE LET converted == [i \in 1..Len(WorldPolicies) |-> convertPolicyToResource(WorldPolicies[i])]
          IN Ok(SelectSeq(converted, LAMBDA r : IAMmatchesFilters(r, filters)))

\* ------------------------------------------------------------------------
\* Status lookups
\* ------------------------------------------------------------------------

NoStatus == [State |-> "", Health |-> ""]

StatusOk(state, health) == [status |-> [State |-> state, Health |-> health], err |-> "nil"]
StatusFail(msg) == [status |-> NoStatus, err |-> msg]

\* DescribeInstances(InstanceIds = [id]) in one region: an error when the
\* request fails or the region has no such instance
RECURSIVE FindInstance(_, _, _)
FindInstance(regions, instanceID, fault) ==
  IF regions = <<>> THEN StatusFail("EC2 instance not found")
  ELSE LET region == Head(regions)
           hits == SelectSeq(WorldInstances(region), LAMBDA inst : inst.Id = instanceID)
       IN IF Call("ec2:DescribeInstancesById", region, 1) \in fault \/ hits = <<>>
            THEN FindInstance(Tail(regions), instanceID, fault)
            ELSE StatusOk(hits[1].State, mapInstanceHealthToHealth(hits[1].State))

\* walks the configured regions only (config.GetRegions, no fallback)
GetInstanceStatus(instanceID, cfg, fault) ==
  FindInstance(GetRegions(cfg), instanceID, fault)

GetBucketStatus(bucketName, fault) ==
  IF \/ Call("s3:HeadBucket", bucketName, 1) \in fault
     \/ ~\E i \in 1..Len(WorldBuckets) : WorldBuckets[i].Id = bucketName
    THEN StatusFail("S3 bucket not found or not accessible")
    ELSE StatusOk("available", HealthHealthy)

\* ------------------------------------------------------------------------
\* The nine collection tasks of GetResources
\* ------------------------------------------------------------------------

Tasks ==
  {"ec2.GetInstances", "s3.GetBuckets", "rds.GetDatabases", "rds.GetClusters",
   "iam.GetUsers", "iam.GetRoles", "iam.GetPolicies", "vpc.GetVPCs",
   "vpc.GetSecurityGroups"}

Collect(t, filters, cfg, fault) ==
  CASE t = "ec2.GetInstances" -> GetInstances(filters, cfg, fault)
    [] t = "s3.GetBuckets" -> GetBuckets(filters, cfg, fault)
    [] t = "rds.GetDatabases" -> GetDatabases(filters, cfg, fault)
    [] t = "rds.GetClusters" -> GetClusters(filters, cfg, fault)
    [] t = "iam.GetUsers" -> GetUsers(filters, fault)
    [] t = "iam.GetRoles" -> GetRoles(filters, fault)
    [] t = "iam.GetPolicies" -> GetPolicies(filters, fault)
    [] t = "vpc.GetVPCs" -> GetVPCs(filters, cfg, fault)
    [] t = "vpc.GetSecurityGroups" -> GetSecurityGroups(filters, cfg, fault)

\* mutant: the default branch falls through to the first case
DispatchFallThrough(resourceType) ==
  CASE resourceType \in {"s3", "bucket", "object_storage"} -> "s3.GetBuckets"
    [] resourceType \in {"rds", "rds_instance", "database", "postgres", "postgresql", "mysql"} -> "rds.GetDatabases"
    [] resourceType \in {"rds_cluster", "aurora", "cluster"} -> "rds.GetClusters"
    [] resourceType \in {"iam", "iam_user", "user"} -> "iam.GetUsers"
    [] resourceType \in {"iam_role", "role"} -> "iam.GetRoles"
    [] resourceType \in {"iam_policy", "policy"} -> "iam.GetPolicies"
    [] resourceType \in {"vpc", "network"} -> "vpc.GetVPCs"
    [] resourceType \in {"security_group", "firewall", "sg"} -> "vpc.GetSecurityGroups"
    [] OTHER -> "ec2.GetInstances"

\* the switch of GetResourcesByType: the collector a type string selects,
\* "" for the default branch
Dispatch(resourceType) ==
  CASE resourceType \in {"ec2", "virtual_machine", "instance"} -> "ec2.GetInstances"
    [] resourceType \in {"s3", "bucket", "object_storage"} -> "s3.GetBuckets"
    [] resourceType \in {"rds", "rds_instance", "database", "postgres", "postgresql", "mysql"} -> "rds.GetDatabases"
    [] resourceType \in {"rds_cluster", "aurora", "cluster"} -> "rds.GetClusters"
    [] resourceType \in {"iam", "iam_user", "user"} -> "iam.GetUsers"
    [] resourceType \in {"iam_role", "role"} -> "iam.GetRoles"
    [] resourceType \in {"iam_policy", "policy"} -> "iam.GetPolicies"
    [] resourceType \in {"vpc", "network"} -> "vpc.GetVPCs"
    [] resourceType \in {"security_group", "firewall", "sg"} -> "vpc.GetSecurityGroups"
    [] OTHER -> ""

\* ------------------------------------------------------------------------
\* AWSProvider: state
\* ------------------------------------------------------------------------

VARIABLES
  authenticated,  \* p.authenticated
  config,         \* p.config
  svcConfig,      \* the config the five service structs hold (CfgNone: nil services)
  pc,             \* the caller: "idle", "fanout" (inside GetResources), "returned"
  op,             \* the call in progress or last returned, with its arguments
  ret,            \* what the last call returned
  trace,          \* the collectors / lookups the sequential calls invoked, in order
  ctxDone,        \* the caller's context is cancelled
  taskOut,        \* per collection task: NotRun, or what its collector returned
  resourceChan,   \* buffered messages of resourceChan
  errorChan,      \* buffered messages of errorChan
  resClosed,      \* close(resourceChan) done
  errClosed,      \* close(errorChan) done
  resNil,         \* the receive loop has set resourceChan = nil
  errNil,         \* the receive loop has set errorChan = nil
  allResources,   \* allResources of GetResources
  errors,         \* errors of GetResources
  fResource,      \* filter predicates under test: the resource
  fFilters,       \* the filter set
  fVerdict,       \* the five verdicts and the EC2 server-side filters, or NoVerdict
  providers,      \* r.providers of the PluginRegistry: name -> provider instance
  regRet,         \* the registry operation last called and what it returned
  factoryRet,     \* what the last CreateProvider returned
  cmd,            \* the inventory command: its options, position and calls made
  mu,             \* r.mu of the PluginRegistry: the writer holding it and the readers
  proc,           \* the goroutines calling the registry concurrently: call and position
  winners,        \* the Register calls that returned nil: goroutine and instance
  resolved,       \* region resolution under test: the input and the three results
  authAtSpawn     \* what p.authenticated was when GetResources started its goroutines

vars ==
  <<authenticated, config, svcConfig, pc, op, ret, trace, ctxDone,
    taskOut, resourceChan, errorChan, resClosed, errClosed, resNil, errNil,
    allResources, errors, fResource, fFilters, fVerdict,
    providers, regRet, factoryRet, cmd, mu, proc, winners, resolved, authAtSpawn>>

providerVars == <<authenticated, config, svcConfig>>
fanVars ==
  <<taskOut, resourceChan, errorChan, resClosed, errClosed, resNil, errNil,
    allResources, errors>>
filterVars == <<fResource, fFilters, fVerdict>>
registryVars == <<providers, regRet>>
concVars == <<mu, proc, winners>>
sideVars == <<providers, regRet, factoryRet, cmd, concVars, resolved, authAtSpawn>>

NotRun == [res |-> <<>>, err |-> "not run"]
NoVerdict ==
  [done |-> FALSE, ec2 |-> FALSE, s3 |-> FALSE, rds |-> FALSE, iam |-> FALSE,
   vpc |-> FALSE, ec2api |-> {}]

ErrNotAuthenticated == "AWS provider is not authenticated"
ErrUnsupportedType == "unsupported resource type"
ErrNotFound == "resource not found"
ErrInvalidConfigType == "invalid configuration type, expected *config.AWSConfig"
ErrAuthFailed == "AWS authentication failed"
ErrValidationFailed == "AWS credential validation failed"

NoOp == [name |-> "", rtype |-> "", id |-> "", filters |-> NoFilters, fault |-> NoFault]
NoRet == [list |-> <<>>, bag |-> EmptyBag, status |-> NoStatus, err |-> ""]

Returned(list, bag, status, err) ==
  [list |-> list, bag |-> bag, status |-> status, err |-> err]

\* the channel capacity given to make(chan, 25)
ChanCap == 25

\* ------------------------------------------------------------------------
\* Inputs the callers draw from
\* ------------------------------------------------------------------------

TagFilterProd == [k \in {"Env"} |-> "prod"]

CallFilters == {NoFilters, [NoFilters EXCEPT !.Tags = TagFilterProd]}

AWSConfigs == {CfgRegions}

TypeStrings ==
  {"ec2", "virtual_machine", "instance", "s3", "bucket", "object_storage",
   "rds", "rds_instance", "database", "postgres", "postgresql", "mysql",
   "rds_cluster", "aurora", "cluster", "iam", "iam_user", "user", "iam_role",
   "role", "iam_policy", "policy", "vpc", "network", "security_group",
   "firewall", "sg", "EC2", "lambda", "subnet", ""}

ResourceIds ==
  {"i-1", "i-2", "i-3", "b-1", "b-2", "db-1", "db-2", "cl-1", "alice", "bob",
   "admin", "pol-1", "vpc-1", "vpc-2", "sg-1", "no-such-id"}

\* the list request of an account-wide collector fails as a whole
TaskFaults(t) ==
  CASE t = "s3.GetBuckets" -> {NoFault, {Call("s3:ListBuckets", "", 1)}}
    [] t = "iam.GetUsers" -> {NoFault, {Call("iam:ListUsers", "", 1)}}
    [] t = "iam.GetRoles" -> {NoFault, {Call("iam:ListRoles", "", 1)}}
    [] t = "iam.GetPolicies" -> {NoFault, {Call("iam:ListPolicies", "", 1)}}
    [] OTHER -> {NoFault}

ByTypeFaults ==
  {NoFault, {Call("s3:ListBuckets", "", 1), Call("iam:ListUsers", "", 1),
             Call("iam:ListRoles", "", 1), Call("iam:ListPolicies", "", 1),
             Call("ec2:DescribeInstances", RegionEast, 1)}}

StatusFaults ==
  {NoFault,
   {Call("ec2:DescribeInstancesById", RegionEast, 1)},
   {Call("s3:HeadBucket", "b-1", 1)},
   {Call("ec2:DescribeInstancesById", RegionEast, 1), Call("s3:HeadBucket", "b-1", 1)}}

\* a cancelled context fails every request issued under it
AllCalls ==
  {Call(api, scope, page) :
     api \in ListApis \cup {"ec2:DescribeInstancesById", "s3:GetBucketLocation", "s3:GetBucketTagging"},
     scope \in {"", RegionEast, RegionWest, "b-1", "b-2"},
     page \in 1..(Len(WorldInstances(RegionEast)) + Len(WorldBuckets) + Len(WorldUsers))}

\* ------------------------------------------------------------------------
\* Registry, factory and inventory command: initial state
\* ------------------------------------------------------------------------

\* a nil CloudProvider
NilProvider == [name |-> "", id |-> 0]

\* make(map[string]CloudProvider)
EmptyProviders == [n \in {} |-> NilProvider]

NoRegRet ==
  [op |-> "", name |-> "", err |-> "", provider |-> NilProvider, names |-> <<>>,
   all |-> EmptyProviders, exists |-> FALSE, count |-> 0, info |-> <<>>]

\* provider: CreateProvider returned a non-nil provider; err: the error chain
\* it returned (<<>> for nil); authErr: what Authenticate returned, if called
NoFactoryRet ==
  [called |-> FALSE, name |-> "", cfg |-> CfgNone, provider |-> FALSE, err |-> <<>>,
   authCalls |-> 0, authErr |-> ""]

\* the options of the inventory command.  A tag string or a date is the
\* sequence of its pieces: a date is spelled character by character, a tag
\* string word by word with every "=" a piece of its own; <<>> is ""
NoOpts ==
  [Providers |-> <<>>, Regions |-> <<>>, ResourceTypes |-> <<>>, Tags |-> <<>>,
   Status |-> <<>>, CreatedAfter |-> <<>>, CreatedBefore |-> <<>>]

NoCmd == [stage |-> "idle", opts |-> NoOpts, err |-> "", calls |-> <<>>]

\* the goroutines that share one PluginRegistry
Procs == {"g1", "g2", "g3"}

\* a sync.RWMutex nobody holds
Unlocked == [writer |-> "", readers |-> {}]

\* a goroutine outside any registry call; got: what its last call returned
\* (found: the "exists" it read; names: the list it built)
IdleProc ==
  [pc |-> "idle", op |-> "", name |-> "", provider |-> NilProvider, err |-> "",
   found |-> FALSE, got |-> NilProvider, names |-> <<>>]

NoResolved == [done |-> FALSE, filterRegions |-> <<>>, ec2 |-> <<>>, rds |-> <<>>, vpc |-> <<>>]

InitSide ==
  /\ providers = EmptyProviders
  /\ regRet = NoRegRet
  /\ factoryRet = NoFactoryRet
  /\ cmd = NoCmd
  /\ mu = Unlocked
  /\ proc = [g \in Procs |-> IdleProc]
  /\ winners = {}
  /\ resolved = NoResolved
  /\ authAtSpawn = "none"

\* ------------------------------------------------------------------------
\* AWSProvider: operations
\* ------------------------------------------------------------------------

\* mutant: the authentication check always passes
IsAuthenticatedAlways(flag) == TRUE

IsAuthenticated(flag) == flag

\* mutant: the flag set before initializeServices is not taken back
authFlagKept(credsOK, initErr, validOK) == credsOK

\* p.authenticated when Authenticate returns: false after a credential
\* failure; set to true, then back to false when initializeServices or
\* ValidateCredentials fails
authFlag(credsOK, initErr, validOK) ==
  IF ~credsOK THEN FALSE
  ELSE IF initErr /= "nil" THEN FALSE
  ELSE IF ~validOK THEN FALSE
  ELSE TRUE

\* initializeServices builds the five services around p.config; it has no
\* failing branch
initializeServices(cfg) == [services |-> cfg, err |-> "nil"]

Init ==
  /\ authenticated = FALSE
  /\ config \in AWSConfigs
  /\ svcConfig = CfgNone
  /\ pc = "idle"
  /\ op = NoOp
  /\ ret = NoRet
  /\ trace = <<>>
  /\ ctxDone = FALSE
  /\ taskOut = [t \in Tasks |-> NotRun]
  /\ resourceChan = EmptyBag
  /\ errorChan = EmptyBag
  /\ resClosed = FALSE
  /\ errClosed = FALSE
  /\ resNil = FALSE
  /\ errNil = FALSE
  /\ allResources = EmptyBag
  /\ errors = EmptyBag
  /\ fResource = NewResource("", "", "", "", "")
  /\ fFilters = NoFilters
  /\ fVerdict = NoVerdict
  /\ InitSide

CallerFree == pc \in {"idle", "returned"}

\* a call starts under a fresh context and with nothing left of the last call
StartCall(name, rtype, id, filters, fault) ==
  /\ CallerFree
  /\ op' = [name |-> name, rtype |-> rtype, id |-> id, filters |-> filters, fault |-> fault]
  /\ ctxDone' = FALSE

ResetFan ==
  /\ taskOut' = [t \in Tasks |-> NotRun]
  /\ resourceChan' = EmptyBag
  /\ errorChan' = EmptyBag
  /\ resClosed' = FALSE
  /\ errClosed' = FALSE
  /\ resNil' = FALSE
  /\ errNil' = FALSE
  /\ allResources' = EmptyBag
  /\ errors' = EmptyBag

\* the body of Authenticate on a provider p = [authenticated, config,
\* svcConfig]: the fields it leaves and the error it returns.  A cfg of
\* another type returns at once; otherwise p.config is set first
authenticateOutcome(p, cfg, credsOK, validOK) ==
  IF cfg.kind /= "aws"
    THEN [authenticated |-> p.authenticated, config |-> p.config,
          svcConfig |-> p.svcConfig, err |-> ErrInvalidConfigType]
  ELSE IF ~credsOK
    THEN [authenticated |-> authFlag(credsOK, "nil", validOK), config |-> cfg,
          svcConfig |-> p.svcConfig, err |-> ErrAuthFailed]
  ELSE LET init == initializeServices(cfg)
       IN [authenticated |-> authFlag(credsOK, init.err, validOK), config |-> cfg,
           svcConfig |-> init.services,
           err |-> IF init.err /= "nil" THEN init.err
                   ELSE IF ~validOK THEN ErrValidationFailed
                   ELSE "nil"]

\* Authenticate(ctx, cfg): credsOK and validOK are the outcomes of
\* authenticator.Authenticate and authenticator.ValidateCredentials
Authenticate(cfg, credsOK, validOK) ==
  /\ StartCall("Authenticate", "", "", NoFilters, NoFault)
  /\ pc' = "returned"
  /\ trace' = <<>>
  /\ ResetFan
  /\ UNCHANGED <<filterVars, sideVars>>
  /\ LET out == authenticateOutcome(
                    [authenticated |-> authenticated, config |-> config,
                     svcConfig |-> svcConfig], cfg, credsOK, validOK)
     IN /\ authenticated' = out.authenticated
        /\ config' = out.config
        /\ svcConfig' = out.svcConfig
        /\ ret' = Returned(<<>>, EmptyBag, NoStatus, out.err)

\* GetResources, up to the start of the receive loop: the authentication
\* check, then the nine goroutines and the closer are started
GetResourcesStart(filters) ==
  /\ StartCall("GetResources", "", "", filters, NoFault)
  /\ trace' = <<>>
  /\ ResetFan
  /\ UNCHANGED <<providerVars, filterVars, sideVars>>
  /\ IF ~IsAuthenticated(authenticated)
       THEN /\ pc' = "returned"
            /\ ret' = Returned(<<>>, EmptyBag, NoStatus, ErrNotAuthenticated)
       ELSE /\ pc' = "fanout"
            /\ ret' = NoRet

\* one collection goroutine: call the collector, send the list or the error
RunTask(t, fault) ==
  /\ pc = "fanout"
  /\ taskOut[t] = NotRun
  /\ LET out == Collect(t, op.filters, svcConfig, IF ctxDone THEN AllCalls ELSE fault)
     IN /\ taskOut' = [taskOut EXCEPT ![t] = out]
        /\ IF out.err /= "nil"
             THEN /\ BagCardinality(errorChan) < ChanCap
                  /\ errorChan' = errorChan (+) SetToBag({[task |-> t, cause |-> out.err]})
                  /\ UNCHANGED resourceChan
             ELSE /\ BagCardinality(resourceChan) < ChanCap
                  /\ resourceChan' = resourceChan (+) SetToBag({out.res})
                  /\ UNCHANGED errorChan
  /\ UNCHANGED <<providerVars, pc, op, ret, trace, ctxDone, resClosed, errClosed,
                 resNil, errNil, allResources, errors, filterVars, sideVars>>

\* mutant: the WaitGroup counts one task only
AllTasksDoneFirst == \E t \in Tasks : taskOut[t] /= NotRun

AllTasksDone == \A t \in Tasks : taskOut[t] /= NotRun

\* the closer goroutine: wg.Wait(), close(resourceChan), close(errorChan)
CloseResourceChan ==
  /\ pc = "fanout"
  /\ AllTasksDone
  /\ ~resClosed
  /\ resClosed' = TRUE
  /\ UNCHANGED <<providerVars, pc, op, ret, trace, ctxDone, taskOut, resourceChan,
                 errorChan, errClosed, resNil, errNil, allResources, errors, filterVars, sideVars>>

\* mutant: the error channel is closed without waiting for the tasks
CloseErrorChanEarly ==
  /\ pc = "fanout"
  /\ ~errClosed
  /\ errClosed' = TRUE
  /\ UNCHANGED <<providerVars, pc, op, ret, trace, ctxDone, taskOut, resourceChan,
                 errorChan, resClosed, resNil, errNil, allResources, errors, filterVars, sideVars>>

CloseErrorChan ==
  /\ pc = "fanout"
  /\ resClosed
  /\ ~errClosed
  /\ errClosed' = TRUE
  /\ UNCHANGED <<providerVars, pc, op, ret, trace, ctxDone, taskOut, resourceChan,
                 errorChan, resClosed, resNil, errNil, allResources, errors, filterVars, sideVars>>

\* mutant: the received list replaces what was collected so far
appendAllOverwrite(all, resources) == SeqToBag(resources)

\* allResources = append(allResources, resources...)
appendAll(all, resources) == all (+) SeqToBag(resources)

\* mutant: a collector error is returned to the caller
fanInErrorPropagated(errs) == IF errs /= EmptyBag THEN "collector failed" ELSE "nil"

\* after the loop the errors are logged as warnings; the error returned is nil
fanInError(errs) == "nil"

\* the end of an iteration: leave the loop and return when both channels are nil
LoopEnd(rNil, eNil, all, errs) ==
  IF rNil /\ eNil
    THEN /\ pc' = "returned"
         /\ ret' = Returned(<<>>, all, NoStatus, fanInError(errs))
    ELSE UNCHANGED <<pc, ret>>

\* select case "resources, ok := <-resourceChan" with ok = true
RecvResources(m) ==
  /\ pc = "fanout"
  /\ ~resNil
  /\ BagIn(m, resourceChan)
  /\ resourceChan' = resourceChan (-) SetToBag({m})
  /\ allResources' = appendAll(allResources, m)
  /\ LoopEnd(resNil, errNil, allResources', errors)
  /\ UNCHANGED <<providerVars, op, trace, ctxDone, taskOut, errorChan, resClosed,
                 errClosed, resNil, errNil, errors, filterVars, sideVars>>

\* the same case with ok = false: the channel is closed and drained
RecvResourcesClosed ==
  /\ pc = "fanout"
  /\ ~resNil
  /\ resClosed
  /\ resourceChan = EmptyBag
  /\ resNil' = TRUE
  /\ LoopEnd(TRUE, errNil, allResources, errors)
  /\ UNCHANGED <<providerVars, op, trace, ctxDone, taskOut, resourceChan, errorChan,
                 resClosed, errClosed, errNil, allResources, errors, filterVars, sideVars>>

\* select case "err, ok := <-errorChan" with ok = true
RecvError(e) ==
  /\ pc = "fanout"
  /\ ~errNil
  /\ BagIn(e, errorChan)
  /\ errorChan' = errorChan (-) SetToBag({e})
  /\ errors' = errors (+) SetToBag({e})
  /\ LoopEnd(resNil, errNil, allResources, errors')
  /\ UNCHANGED <<providerVars, op, trace, ctxDone, taskOut, resourceChan, resClosed,
                 errClosed, resNil, errNil, allResources, filterVars, sideVars>>

RecvErrorClosed ==
  /\ pc = "fanout"
  /\ ~errNil
  /\ errClosed
  /\ errorChan = EmptyBag
  /\ errNil' = TRUE
  /\ LoopEnd(resNil, TRUE, allResources, errors)
  /\ UNCHANGED <<providerVars, op, trace, ctxDone, taskOut, resourceChan, errorChan,
                 resClosed, errClosed, resNil, allResources, errors, filterVars, sideVars>>

\* GetResourcesByType: the switch selects one collector and its result is
\* returned as it is
GetResourcesByType(resourceType, filters, fault) ==
  /\ StartCall("GetResourcesByType", resourceType, "", filters, fault)
  /\ pc' = "returned"
  /\ ResetFan
  /\ UNCHANGED <<providerVars, filterVars, sideVars>>
  /\ IF ~IsAuthenticated(authenticated)
       THEN /\ trace' = <<>>
            /\ ret' = Returned(<<>>, EmptyBag, NoStatus, ErrNotAuthenticated)
       ELSE LET t == Dispatch(resourceType)
            IN IF t = ""
                 THEN /\ trace' = <<>>
                      /\ ret' = Returned(<<>>, EmptyBag, NoStatus, ErrUnsupportedType)
                 ELSE LET out == Collect(t, filters, svcConfig, fault)
                      IN /\ trace' = <<[name |-> t, list |-> out.res,
                                        status |-> NoStatus, err |-> out.err]>>
                         /\ ret' = Returned(out.res, EmptyBag, NoStatus, out.err)

\* mutant: both lookups always run and the later success wins
ProbeStatusLast(resourceID, cfg, fault) ==
  LET e == GetInstanceStatus(resourceID, cfg, fault)
      b == GetBucketStatus(resourceID, fault)
      tr == << [name |-> "ec2.GetInstanceStatus", list |-> <<>>, status |-> e.status, err |-> e.err],
               [name |-> "s3.GetBucketStatus", list |-> <<>>, status |-> b.status, err |-> b.err] >>
  IN IF b.err = "nil" THEN [trace |-> tr, status |-> b.status, err |-> "nil"]
     ELSE IF e.err = "nil" THEN [trace |-> tr, status |-> e.status, err |-> "nil"]
     ELSE [trace |-> tr, status |-> NoStatus, err |-> ErrNotFound]

\* the body of GetResourceStatus after the authentication check: EC2 first,
\* S3 only when EC2 returned an error, "not found" when both did
ProbeStatus(resourceID, cfg, fault) ==
  LET e == GetInstanceStatus(resourceID, cfg, fault)
      et == [name |-> "ec2.GetInstanceStatus", list |-> <<>>, status |-> e.status, err |-> e.err]
  IN IF e.err = "nil" THEN [trace |-> <<et>>, status |-> e.status, err |-> "nil"]
     ELSE LET b == GetBucketStatus(resourceID, fault)
              bt == [name |-> "s3.GetBucketStatus", list |-> <<>>, status |-> b.status, err |-> b.err]
          IN IF b.err = "nil" THEN [trace |-> <<et, bt>>, status |-> b.status, err |-> "nil"]
             ELSE [trace |-> <<et, bt>>, status |-> NoStatus, err |-> ErrNotFound]

GetResourceStatus(resourceID, fault) ==
  /\ StartCall("GetResourceStatus", "", resourceID, NoFilters, fault)
  /\ pc' = "returned"
  /\ ResetFan
  /\ UNCHANGED <<providerVars, filterVars, sideVars>>
  /\ IF ~IsAuthenticated(authenticated)
       THEN /\ trace' = <<>>
            /\ ret' = Returned(<<>>, EmptyBag, NoStatus, ErrNotAuthenticated)
       ELSE LET p == ProbeStatus(resourceID, svcConfig, fault)
            IN /\ trace' = p.trace
               /\ ret' = Returned(<<>>, EmptyBag, p.status, p.err)

Next ==
  \/ \E cfg \in AWSConfigs \cup {CfgOther}, credsOK \in BOOLEAN, validOK \in BOOLEAN :
       Authenticate(cfg, credsOK, validOK)
  \/ GetResourcesStart(NoFilters)
  \/ \E t \in Tasks : \E fault \in TaskFaults(t) : RunTask(t, fault)
  \/ CloseResourceChan
  \/ CloseErrorChan
  \/ \E m \in BagToSet(resourceChan) : RecvResources(m)
  \/ RecvResourcesClosed
  \/ \E e \in BagToSet(errorChan) : RecvError(e)
  \/ RecvErrorClosed
  \/ \E rt \in TypeStrings, filters \in CallFilters, fault \in ByTypeFaults :
       GetResourcesByType(rt, filters, fault)
  \/ \E id \in ResourceIds, fault \in StatusFaults : GetResourceStatus(id, fault)

Spec == Init /\ [][Next]_vars

\* ------------------------------------------------------------------------
\* GetResources under a context the caller may cancel
\* ------------------------------------------------------------------------

\* the context is cancelled after at most this many tasks have returned
MaxRunBeforeCancel == 1

\* the caller cancels the context (or its deadline expires) during GetResources
CancelCtx ==
  /\ pc = "fanout"
  /\ ~ctxDone
  /\ Cardinality({t \in Tasks : taskOut[t] /= NotRun}) <= MaxRunBeforeCancel
  /\ ctxDone' = TRUE
  /\ UNCHANGED <<providerVars, pc, op, ret, trace, fanVars, filterVars, sideVars>>

\* a provider that Authenticate(CfgRegions) has authenticated
InitCancel ==
  /\ authenticated = TRUE
  /\ config = CfgRegions
  /\ svcConfig = CfgRegions
  /\ pc = "idle"
  /\ op = NoOp
  /\ ret = NoRet
  /\ trace = <<>>
  /\ ctxDone = FALSE
  /\ taskOut = [t \in Tasks |-> NotRun]
  /\ resourceChan = EmptyBag
  /\ errorChan = EmptyBag
  /\ resClosed = FALSE
  /\ errClosed = FALSE
  /\ resNil = FALSE
  /\ errNil = FALSE
  /\ allResources = EmptyBag
  /\ errors = EmptyBag
  /\ fResource = NewResource("", "", "", "", "")
  /\ fFilters = NoFilters
  /\ fVerdict = NoVerdict
  /\ InitSide

NextCancel ==
  \/ GetResourcesStart(NoFilters)
  \/ CancelCtx
  \/ \E t \in Tasks : RunTask(t, NoFault)
  \/ CloseResourceChan
  \/ CloseErrorChan
  \/ \E m \in BagToSet(resourceChan) : RecvResources(m)
  \/ RecvResourcesClosed
  \/ \E e \in BagToSet(errorChan) : RecvError(e)
  \/ RecvErrorClosed

SpecCancel == InitCancel /\ [][NextCancel]_vars

\* ------------------------------------------------------------------------
\* The filter predicates as pure functions
\* ------------------------------------------------------------------------

\* every resource a collector builds from the account, under either configuration
FilterResources ==
  UNION {Range(Collect(t, NoFilters, cfg, NoFault).res) :
           t \in Tasks, cfg \in {CfgRegions, CfgDefault}}

TagFilterInputs ==
  {EmptyTags,
   [k \in {"Env"} |-> "prod"],
   [k \in {"Env"} |-> "dev"],
   [k \in {"Team"} |-> "core"],
   [k \in {"Env", "Name"} |-> IF k = "Env" THEN "prod" ELSE "main"],
   [k \in {"Env", "Name"} |-> IF k = "Env" THEN "prod" ELSE "web"]}

TypeFilterInputs ==
  {<<>>, <<"EC2">>, <<"bucket", "rds">>, <<"iam_role">>, <<"network", "lambda">>}

RegionFilterInputs == {<<>>, <<RegionEast>>, <<RegionWest, "global">>}

StatusFilterInputs == {<<>>, <<"running", "available">>}

TimeFilterInputs == {NoTime} \cup {<<t>> : t \in 1..(MaxTime - 1)}

FilterInputs ==
  {[Regions |-> rg, ResourceTypes |-> ty, Tags |-> tg, Status |-> st,
    CreatedAfter |-> ca, CreatedBefore |-> cb] :
     rg \in RegionFilterInputs, ty \in TypeFilterInputs, tg \in TagFilterInputs,
     st \in StatusFilterInputs, ca \in TimeFilterInputs, cb \in TimeFilterInputs}

InitFilter ==
  /\ authenticated = FALSE
  /\ config = CfgRegions
  /\ svcConfig = CfgNone
  /\ pc = "idle"
  /\ op = NoOp
  /\ ret = NoRet
  /\ trace = <<>>
  /\ ctxDone = FALSE
  /\ taskOut = [t \in Tasks |-> NotRun]
  /\ resourceChan = EmptyBag
  /\ errorChan = EmptyBag
  /\ resClosed = FALSE
  /\ errClosed = FALSE
  /\ resNil = FALSE
  /\ errNil = FALSE
  /\ allResources = EmptyBag
  /\ errors = EmptyBag
  /\ fResource \in FilterResources
  /\ fFilters \in FilterInputs
  /\ fVerdict = NoVerdict
  /\ InitSide

\* each service's matchesFilters applied to the resource, and the filters
\* EC2 hands to the API
ApplyFilters ==
  /\ ~fVerdict.done
  /\ fVerdict' = [done |-> TRUE,
                  ec2 |-> EC2matchesFilters(fResource, fFilters),
                  s3 |-> S3matchesFilters(fResource, fFilters),
                  rds |-> RDSmatchesFilters(fResource, fFilters),
                  iam |-> IAMmatchesFilters(fResource, fFilters),
                  vpc |-> VPCmatchesFilters(fResource, fFilters),
                  ec2api |-> buildEC2Filters(fFilters)]
  /\ UNCHANGED <<providerVars, pc, op, ret, trace, ctxDone, fanVars, fResource, fFilters, sideVars>>

NextFilter == ApplyFilters

SpecFilter == InitFilter /\ [][NextFilter]_vars

\* ------------------------------------------------------------------------
\* GetResources with filters, on an authenticated provider
\* ------------------------------------------------------------------------

QueryFilters ==
  {[NoFilters EXCEPT !.Regions = <<RegionWest>>],
   [NoFilters EXCEPT !.ResourceTypes = <<"rds_cluster">>],
   [NoFilters EXCEPT !.ResourceTypes = <<"user">>],
   [NoFilters EXCEPT !.ResourceTypes = <<"sg">>],
   [NoFilters EXCEPT !.Status = <<"running">>]}

\* the bucket listing may fail
QueryFaults(t) ==
  IF t = "s3.GetBuckets" THEN {NoFault, {Call("s3:ListBuckets", "", 1)}} ELSE {NoFault}

NextQuery ==
  \/ \E filters \in QueryFilters : GetResourcesStart(filters)
  \/ \E t \in Tasks : \E fault \in QueryFaults(t) : RunTask(t, fault)
  \/ CloseResourceChan
  \/ CloseErrorChan
  \/ \E m \in BagToSet(resourceChan) : RecvResources(m)
  \/ RecvResourcesClosed
  \/ \E e \in BagToSet(errorChan) : RecvError(e)
  \/ RecvErrorClosed

SpecQuery == InitCancel /\ [][NextQuery]_vars

\* ------------------------------------------------------------------------
\* pkg/providers: the plugin registry
\* ------------------------------------------------------------------------

\* provider instances per name that callers hold
MaxInstances == 2

RegistryNames == {"aws", "azure", "gcp"}

\* the providers callers pass to Register: instances of each name, an
\* instance whose Name() is empty, and nil
RegistryProviders ==
  {[name |-> n, id |-> i] : n \in RegistryNames \cup {""}, i \in 1..MaxInstances}
  \cup {NilProvider}

\* provider.Name()
Name(provider) == provider.name

\* the byte order of the names, which sort.Strings uses
NameRank(n) ==
  CASE n = "" -> 0
    [] n = "aws" -> 1
    [] n = "azure" -> 2
    [] n = "gcp" -> 3

StrLess(a, b) == NameRank(a) < NameRank(b)

\* the orders in which "for name := range r.providers" may visit the keys
RangeOrders(m) ==
  {o \in [1..Cardinality(DOMAIN m) -> DOMAIN m] : Range(o) = DOMAIN m}

RECURSIVE InsertSorted(_, _)
InsertSorted(x, sorted) ==
  IF sorted = <<>> THEN <<x>>
  ELSE IF StrLess(Head(sorted), x) THEN <<Head(sorted)>> \o InsertSorted(x, Tail(sorted))
  ELSE <<x>> \o sorted

\* mutant: the names are returned in map order
sortStringsSkipped(names) == names

\* sort.Strings(names)
RECURSIVE sortStrings(_)
sortStrings(names) ==
  IF names = <<>> THEN <<>>
  ELSE InsertSorted(Head(names), sortStrings(Tail(names)))

\* mutant: an existing binding is replaced
registerReplacing(provs, provider) ==
  IF provider = NilProvider THEN [providers |-> provs, err |-> "provider cannot be nil"]
  ELSE IF Name(provider) = "" THEN [providers |-> provs, err |-> "provider name cannot be empty"]
  ELSE [providers |-> [n \in DOMAIN provs \cup {Name(provider)} |->
                         IF n = Name(provider) THEN provider ELSE provs[n]],
        err |-> "nil"]

\* the map and the error Register leaves
register(provs, provider) ==
  IF provider = NilProvider THEN [providers |-> provs, err |-> "provider cannot be nil"]
  ELSE IF Name(provider) = "" THEN [providers |-> provs, err |-> "provider name cannot be empty"]
  ELSE IF Name(provider) \in DOMAIN provs
    THEN [providers |-> provs, err |-> "provider already registered"]
  ELSE [providers |-> [n \in DOMAIN provs \cup {Name(provider)} |->
                         IF n = Name(provider) THEN provider ELSE provs[n]],
        err |-> "nil"]

RegRet(opName, name, err) == [NoRegRet EXCEPT !.op = opName, !.name = name, !.err = err]

Register(provider) ==
  LET out == register(providers, provider)
  IN /\ providers' = out.providers
     /\ regRet' = [RegRet("Register", Name(provider), out.err) EXCEPT !.provider = provider]
     /\ UNCHANGED <<providerVars, pc, op, ret, trace, ctxDone, fanVars, filterVars,
                    factoryRet, cmd, concVars, resolved, authAtSpawn>>

\* mutant: the whole map is cleared
unregisterClearing(provs, name) ==
  IF name \notin DOMAIN provs THEN [providers |-> provs, err |-> "provider not found"]
  ELSE [providers |-> EmptyProviders, err |-> "nil"]

\* the map and the error Unregister leaves: delete(r.providers, name)
unregister(provs, name) ==
  IF name \notin DOMAIN provs THEN [providers |-> provs, err |-> "provider not found"]
  ELSE [providers |-> [n \in DOMAIN provs \ {name} |-> provs[n]], err |-> "nil"]

Unregister(name) ==
  /\ LET out == unregister(providers, name)
     IN /\ providers' = out.providers
        /\ regRet' = RegRet("Unregister", name, out.err)
  /\ UNCHANGED <<providerVars, pc, op, ret, trace, ctxDone, fanVars, filterVars,
                 factoryRet, cmd, concVars, resolved, authAtSpawn>>

\* mutant: Exists answers for the empty registry
existsNever(provs, name) == FALSE

\* "_, exists := r.providers[name]"
exists(provs, name) == name \in DOMAIN provs

Get(name) ==
  /\ regRet' = IF name \notin DOMAIN providers
                 THEN RegRet("Get", name, "provider not found")
                 ELSE [RegRet("Get", name, "nil") EXCEPT !.provider = providers[name]]
  /\ UNCHANGED <<providerVars, pc, op, ret, trace, ctxDone, fanVars, filterVars,
                 providers, factoryRet, cmd, concVars, resolved, authAtSpawn>>

List ==
  /\ \E order \in RangeOrders(providers) :
       regRet' = [RegRet("List", "", "nil") EXCEPT !.names = sortStrings(order)]
  /\ UNCHANGED <<providerVars, pc, op, ret, trace, ctxDone, fanVars, filterVars,
                 providers, factoryRet, cmd, concVars, resolved, authAtSpawn>>

GetAll ==
  /\ regRet' = [RegRet("GetAll", "", "nil") EXCEPT
                  !.all = [n \in DOMAIN providers |-> providers[n]]]
  /\ UNCHANGED <<providerVars, pc, op, ret, trace, ctxDone, fanVars, filterVars,
                 providers, factoryRet, cmd, concVars, resolved, authAtSpawn>>

Exists(name) ==
  /\ regRet' = [RegRet("Exists", name, "nil") EXCEPT !.exists = exists(providers, name)]
  /\ UNCHANGED <<providerVars, pc, op, ret, trace, ctxDone, fanVars, filterVars,
                 providers, factoryRet, cmd, concVars, resolved, authAtSpawn>>

Count ==
  /\ regRet' = [RegRet("Count", "", "nil") EXCEPT !.count = Cardinality(DOMAIN providers)]
  /\ UNCHANGED <<providerVars, pc, op, ret, trace, ctxDone, fanVars, filterVars,
                 providers, factoryRet, cmd, concVars, resolved, authAtSpawn>>

\* one ProviderInfo per map entry, in map order
GetProviderInfo ==
  /\ \E order \in RangeOrders(providers) :
       regRet' = [RegRet("GetProviderInfo", "", "nil") EXCEPT
                    !.info = [i \in 1..Len(order) |->
                                [Name |-> order[i], Provider |-> providers[order[i]]]]]
  /\ UNCHANGED <<providerVars, pc, op, ret, trace, ctxDone, fanVars, filterVars,
                 providers, factoryRet, cmd, concVars, resolved, authAtSpawn>>

NextRegistry ==
  \/ \E provider \in RegistryProviders : Register(provider)
  \/ \E name \in RegistryNames \cup {""} : Unregister(name)
  \/ \E name \in RegistryNames \cup {""} : Get(name)
  \/ List
  \/ GetAll
  \/ \E name \in RegistryNames \cup {""} : Exists(name)
  \/ Count
  \/ GetProviderInfo

SpecRegistry == Init /\ [][NextRegistry]_vars

\* ------------------------------------------------------------------------
\* The plugin registry called from several goroutines: every method takes
\* r.mu, and a step is what a goroutine does between two scheduling points
\* ------------------------------------------------------------------------

\* the instances the goroutines pass to Register, and the names they look up
ConcProviders ==
  {[name |-> "aws", id |-> i] : i \in 1..MaxInstances}
  \cup {[name |-> "", id |-> 1], NilProvider}

ConcNames == {"aws", "gcp"}

\* mutant: Register does not take the mutex
canLockUnguarded(m) == TRUE

\* r.mu.Lock() returns when no writer and no reader holds the mutex
canLock(m) == m.writer = "" /\ m.readers = {}

\* r.mu.RLock() returns when no writer holds the mutex
canRLock(m) == m.writer = ""

ProcFree(g) == proc[g].pc \in {"idle", "returned"}

ConcUnchanged ==
  UNCHANGED <<providerVars, pc, op, ret, trace, ctxDone, fanVars, filterVars,
              regRet, factoryRet, cmd, resolved, authAtSpawn>>

\* Register up to r.mu.Lock(): a nil provider or an empty name returns at once
ConcRegisterCall(g, provider) ==
  /\ ProcFree(g)
  /\ proc' = [proc EXCEPT ![g] =
       IF provider = NilProvider
         THEN [IdleProc EXCEPT !.pc = "returned", !.op = "Register",
                               !.err = "provider cannot be nil"]
       ELSE IF Name(provider) = ""
         THEN [IdleProc EXCEPT !.pc = "returned", !.op = "Register", !.provider = provider,
                               !.err = "provider name cannot be empty"]
       ELSE [IdleProc EXCEPT !.pc = "lock", !.op = "Register", !.provider = provider,
                             !.name = Name(provider)]]
  /\ UNCHANGED <<providers, mu, winners>>
  /\ ConcUnchanged

\* r.mu.Lock()
ConcLock(g) ==
  /\ proc[g].pc = "lock"
  /\ canLock(mu)
  /\ mu' = [mu EXCEPT !.writer = g]
  /\ proc' = [proc EXCEPT ![g].pc = "locked"]
  /\ UNCHANGED <<providers, winners>>
  /\ ConcUnchanged

\* "if _, exists := r.providers[name]; exists { return ...already registered }"
ConcRegisterCheck(g) ==
  /\ proc[g].pc = "locked"
  /\ LET found == exists(providers, proc[g].name)
     IN proc' = [proc EXCEPT ![g].found = found,
                             ![g].err = IF found THEN "provider already registered" ELSE "",
                             ![g].pc = IF found THEN "unlock" ELSE "store"]
  /\ UNCHANGED <<providers, mu, winners>>
  /\ ConcUnchanged

\* "r.providers[name] = provider"
ConcRegisterStore(g) ==
  /\ proc[g].pc = "store"
  /\ providers' = [n \in DOMAIN providers \cup {proc[g].name} |->
                     IF n = proc[g].name THEN proc[g].provider ELSE providers[n]]
  /\ proc' = [proc EXCEPT ![g].err = "nil", ![g].pc = "unlock"]
  /\ UNCHANGED <<mu, winners>>
  /\ ConcUnchanged

\* the deferred r.mu.Unlock(), then Register returns
ConcUnlock(g) ==
  /\ proc[g].pc = "unlock"
  /\ mu' = [mu EXCEPT !.writer = ""]
  /\ proc' = [proc EXCEPT ![g].pc = "returned"]
  /\ winners' = IF proc[g].err = "nil"
                  THEN winners \cup {[proc |-> g, provider |-> proc[g].provider]}
                  ELSE winners
  /\ UNCHANGED providers
  /\ ConcUnchanged

\* Get, Exists or List up to r.mu.RLock()
ConcReadCall(g, opName, name) ==
  /\ ProcFree(g)
  /\ proc' = [proc EXCEPT ![g] = [IdleProc EXCEPT !.pc = "rlock", !.op = opName, !.name = name]]
  /\ UNCHANGED <<providers, mu, winners>>
  /\ ConcUnchanged

\* r.mu.RLock()
ConcRLock(g) ==
  /\ proc[g].pc = "rlock"
  /\ canRLock(mu)
  /\ mu' = [mu EXCEPT !.readers = @ \cup {g}]
  /\ proc' = [proc EXCEPT ![g].pc = "rlocked"]
  /\ UNCHANGED <<providers, winners>>
  /\ ConcUnchanged

\* the body of Get, Exists or List under the read lock
ConcRead(g) ==
  /\ proc[g].pc = "rlocked"
  /\ LET name == proc[g].name
         found == exists(providers, name)
     IN CASE proc[g].op = "Get" ->
               proc' = [proc EXCEPT ![g].found = found,
                                    ![g].got = IF found THEN providers[name] ELSE NilProvider,
                                    ![g].err = IF found THEN "nil" ELSE "provider not found",
                                    ![g].pc = "runlock"]
          [] proc[g].op = "Exists" ->
               proc' = [proc EXCEPT ![g].found = found, ![g].err = "nil", ![g].pc = "runlock"]
          [] proc[g].op = "List" ->
               \E order \in RangeOrders(providers) :
                 proc' = [proc EXCEPT ![g].names = sortStrings(order), ![g].err = "nil",
                                      ![g].pc = "runlock"]
  /\ UNCHANGED <<providers, mu, winners>>
  /\ ConcUnchanged

\* the deferred r.mu.RUnlock(), then the method returns
ConcRUnlock(g) ==
  /\ proc[g].pc = "runlock"
  /\ mu' = [mu EXCEPT !.readers = @ \ {g}]
  /\ proc' = [proc EXCEPT ![g].pc = "returned"]
  /\ UNCHANGED <<providers, winners>>
  /\ ConcUnchanged

NextRegistryConc ==
  \E g \in Procs :
    \/ \E provider \in ConcProviders : ConcRegisterCall(g, provider)
    \/ ConcLock(g)
    \/ ConcRegisterCheck(g)
    \/ ConcRegisterStore(g)
    \/ ConcUnlock(g)
    \/ \E name \in ConcNames : ConcReadCall(g, "Get", name)
    \/ \E name \in ConcNames : ConcReadCall(g, "Exists", name)
    \/ ConcReadCall(g, "List", "")
    \/ ConcRLock(g)
    \/ ConcRead(g)
    \/ ConcRUnlock(g)

SpecRegistryConc == Init /\ [][NextRegistryConc]_vars

\* ------------------------------------------------------------------------
\* pkg/providers: the provider factory
\* ------------------------------------------------------------------------

\* a nil *config.AWSConfig held in the ProviderConfig interface
CfgNilAWS == [kind |-> "aws-nil", Regions |-> <<>>, Region |-> ""]

FactoryNames == {"aws", "azure", ""}

FactoryConfigs == {CfgRegions, CfgDefault, CfgOther, CfgNilAWS}

\* NewAWSProvider: a fresh, unauthenticated provider around cfg
NewAWSProvider(cfg) ==
  IF cfg.kind = "aws-nil"
    THEN [p |-> [authenticated |-> FALSE, config |-> CfgNone, svcConfig |-> CfgNone],
          err |-> "AWS configuration cannot be nil"]
    ELSE [p |-> [authenticated |-> FALSE, config |-> cfg, svcConfig |-> CfgNone],
          err |-> "nil"]

\* mutant: the provider is returned whatever Authenticate said
createAWSProviderUnchecked(cur, cfg, credsOK, validOK) ==
  IF cfg.kind \notin {"aws", "aws-nil"}
    THEN [p |-> cur, provider |-> FALSE,
          err |-> <<"invalid configuration type for AWS provider">>,
          authCalls |-> 0, authErr |-> ""]
  ELSE LET new == NewAWSProvider(cfg)
       IN IF new.err /= "nil"
            THEN [p |-> cur, provider |-> FALSE,
                  err |-> <<"failed to create AWS provider", new.err>>,
                  authCalls |-> 0, authErr |-> ""]
            ELSE LET out == authenticateOutcome(new.p, cfg, credsOK, validOK)
                     after == [authenticated |-> out.authenticated, config |-> out.config,
                               svcConfig |-> out.svcConfig]
                 IN [p |-> after, provider |-> TRUE, err |-> <<>>,
                     authCalls |-> 1, authErr |-> out.err]

\* createAWSProvider: cur is the provider the caller held before; p is the
\* provider object the call leaves behind
createAWSProvider(cur, cfg, credsOK, validOK) ==
  IF cfg.kind \notin {"aws", "aws-nil"}
    THEN [p |-> cur, provider |-> FALSE,
          err |-> <<"invalid configuration type for AWS provider">>,
          authCalls |-> 0, authErr |-> ""]
  ELSE LET new == NewAWSProvider(cfg)
       IN IF new.err /= "nil"
            THEN [p |-> cur, provider |-> FALSE,
                  err |-> <<"failed to create AWS provider", new.err>>,
                  authCalls |-> 0, authErr |-> ""]
            ELSE LET out == authenticateOutcome(new.p, cfg, credsOK, validOK)
                     after == [authenticated |-> out.authenticated, config |-> out.config,
                               svcConfig |-> out.svcConfig]
                 IN IF out.err /= "nil"
                      THEN [p |-> after, provider |-> FALSE,
                            err |-> <<"failed to authenticate AWS provider", out.err>>,
                            authCalls |-> 1, authErr |-> out.err]
                      ELSE [p |-> after, provider |-> TRUE, err |-> <<>>,
                            authCalls |-> 1, authErr |-> out.err]

\* the switch of CreateProvider
createProvider(cur, name, cfg, credsOK, validOK) ==
  IF name = "aws" THEN createAWSProvider(cur, cfg, credsOK, validOK)
  ELSE [p |-> cur, provider |-> FALSE, err |-> <<"unsupported provider">>,
        authCalls |-> 0, authErr |-> ""]

CreateProvider(name, cfg, credsOK, validOK) ==
  /\ CallerFree
  /\ LET out == createProvider([authenticated |-> authenticated, config |-> config,
                                svcConfig |-> svcConfig], name, cfg, credsOK, validOK)
     IN /\ authenticated' = out.p.authenticated
        /\ config' = out.p.config
        /\ svcConfig' = out.p.svcConfig
        /\ factoryRet' = [called |-> TRUE, name |-> name, cfg |-> cfg,
                          provider |-> out.provider, err |-> out.err,
                          authCalls |-> out.authCalls, authErr |-> out.authErr]
  /\ pc' = "idle"
  /\ op' = NoOp
  /\ ret' = NoRet
  /\ trace' = <<>>
  /\ UNCHANGED <<ctxDone, fanVars, filterVars, registryVars, cmd, concVars, resolved, authAtSpawn>>

\* the caller uses the provider CreateProvider gave it
NextFactory ==
  \/ \E name \in FactoryNames, cfg \in FactoryConfigs, credsOK \in BOOLEAN, validOK \in BOOLEAN :
       CreateProvider(name, cfg, credsOK, validOK)
  \/ /\ factoryRet.provider
     /\ \E rt \in TypeStrings, filters \in CallFilters, fault \in ByTypeFaults :
          GetResourcesByType(rt, filters, fault)
  \/ /\ factoryRet.provider
     /\ \E id \in ResourceIds, fault \in StatusFaults : GetResourceStatus(id, fault)

SpecFactory == Init /\ [][NextFactory]_vars

\* ------------------------------------------------------------------------
\* cmd/cloudview: the inventory command
\* ------------------------------------------------------------------------

\* the string a sequence of pieces spells
Concat(pieces) ==
  CASE pieces = <<>> -> ""
    [] Len(pieces) = 1 -> pieces[1]
    [] pieces = <<"b", "=", "c">> -> "b=c"
    [] OTHER -> "?"

\* the index of the first "=" of a tag string, 0 when it has none
RECURSIVE IndexOfEq(_, _)
IndexOfEq(tagStr, i) ==
  IF i > Len(tagStr) THEN 0
  ELSE IF tagStr[i] = "=" THEN i
  ELSE IndexOfEq(tagStr, i + 1)

\* strings.SplitN(tagStr, "=", 2)
SplitN2(tagStr) ==
  LET i == IndexOfEq(tagStr, 1)
  IN IF i = 0 THEN <<Concat(tagStr)>>
     ELSE <<Concat(SubSeq(tagStr, 1, i - 1)), Concat(SubSeq(tagStr, i + 1, Len(tagStr)))>>

\* mutant: a tag string without "=" is skipped
RECURSIVE parseTagsSkipping(_, _)
parseTagsSkipping(tagStrs, acc) ==
  IF tagStrs = <<>> THEN [tags |-> acc, err |-> "nil"]
  ELSE LET parts == SplitN2(Head(tagStrs))
       IN IF Len(parts) /= 2 THEN parseTagsSkipping(Tail(tagStrs), acc)
          ELSE parseTagsSkipping(Tail(tagStrs),
                 [k \in DOMAIN acc \cup {parts[1]} |->
                    IF k = parts[1] THEN parts[2] ELSE acc[k]])

\* the tag loop of parseInventoryFilters
RECURSIVE parseTags(_, _)
parseTags(tagStrs, acc) ==
  IF tagStrs = <<>> THEN [tags |-> acc, err |-> "nil"]
  ELSE LET parts == SplitN2(Head(tagStrs))
       IN IF Len(parts) /= 2 THEN [tags |-> acc, err |-> "invalid tag format"]
          ELSE parseTags(Tail(tagStrs),
                 [k \in DOMAIN acc \cup {parts[1]} |->
                    IF k = parts[1] THEN parts[2] ELSE acc[k]])

Digit(c) ==
  CASE c = "0" -> 0 [] c = "1" -> 1 [] c = "2" -> 2 [] c = "3" -> 3 [] c = "4" -> 4
    [] c = "5" -> 5 [] c = "6" -> 6 [] c = "7" -> 7 [] c = "8" -> 8 [] c = "9" -> 9
    [] OTHER -> -1

IsLeap(y) == (y % 4 = 0 /\ y % 100 /= 0) \/ y % 400 = 0

DaysIn(m, y) ==
  CASE m = 2 -> IF IsLeap(y) THEN 29 ELSE 28
    [] m \in {4, 6, 9, 11} -> 30
    [] OTHER -> 31

\* days from 1970-01-01 to the civil date y-m-d
DaysFromCivil(y, m, d) ==
  LET yy == IF m <= 2 THEN y - 1 ELSE y
      era == yy \div 400
      yoe == yy - era * 400
      doy == (153 * (IF m > 2 THEN m - 3 ELSE m + 9) + 2) \div 5 + d - 1
      doe == yoe * 365 + yoe \div 4 - yoe \div 100 + doy
  IN era * 146097 + doe - 719468

\* the instant of timestamp 0 of the account: 2024-01-01T00:00:00Z; the
\* timestamps count days
TimeOfDate(y, m, d) == DaysFromCivil(y, m, d) - DaysFromCivil(2024, 1, 1)

\* time.Parse("2006-01-02", s): four digits, "-", two digits, "-", two
\* digits and nothing else, the month and the day in range
ParseDate(s) ==
  IF Len(s) /= 10 THEN [t |-> 0, err |-> "parse error"]
  ELSE IF s[5] /= "-" \/ s[8] /= "-" THEN [t |-> 0, err |-> "parse error"]
  ELSE IF \E i \in {1, 2, 3, 4, 6, 7, 9, 10} : Digit(s[i]) < 0
    THEN [t |-> 0, err |-> "parse error"]
  ELSE LET y == Digit(s[1]) * 1000 + Digit(s[2]) * 100 + Digit(s[3]) * 10 + Digit(s[4])
           m == Digit(s[6]) * 10 + Digit(s[7])
           d == Digit(s[9]) * 10 + Digit(s[10])
       IN IF m < 1 \/ m > 12 THEN [t |-> 0, err |-> "month out of range"]
          ELSE IF d < 1 \/ d > DaysIn(m, y) THEN [t |-> 0, err |-> "day out of range"]
          ELSE [t |-> TimeOfDate(y, m, d), err |-> "nil"]

\* parseInventoryFilters: tags first, then created-after, then created-before
parseInventoryFilters(opts) ==
  LET base == [Regions |-> opts.Regions, ResourceTypes |-> opts.ResourceTypes,
               Tags |-> EmptyTags, Status |-> opts.Status,
               CreatedAfter |-> NoTime, CreatedBefore |-> NoTime]
      tg == parseTags(opts.Tags, EmptyTags)
      withTags == [base EXCEPT !.Tags = tg.tags]
      ca == ParseDate(opts.CreatedAfter)
      withAfter == IF opts.CreatedAfter /= <<>>
                     THEN [withTags EXCEPT !.CreatedAfter = <<ca.t>>] ELSE withTags
      cb == ParseDate(opts.CreatedBefore)
  IN IF tg.err /= "nil" THEN [filters |-> withTags, err |-> tg.err]
     ELSE IF opts.CreatedAfter /= <<>> /\ ca.err /= "nil"
       THEN [filters |-> withTags, err |-> "invalid created-after date format"]
     ELSE IF opts.CreatedBefore /= <<>> /\ cb.err /= "nil"
       THEN [filters |-> withAfter, err |-> "invalid created-before date format"]
     ELSE IF opts.CreatedBefore /= <<>>
       THEN [filters |-> [withAfter EXCEPT !.CreatedBefore = <<cb.t>>], err |-> "nil"]
     ELSE [filters |-> withAfter, err |-> "nil"]

\* the loop that keeps the requested providers that are enabled
validProviders(requested, enabled) ==
  IF \E i \in 1..Len(requested) :
       requested[i] = "all" /\ \A j \in 1..(i - 1) : requested[j] /= "all"
    THEN LET i == CHOOSE k \in 1..Len(requested) :
                    requested[k] = "all" /\ \A j \in 1..(k - 1) : requested[j] /= "all"
         IN SelectSeq(SubSeq(requested, 1, i - 1), LAMBDA n : n \in enabled)
            \o (IF "aws" \in enabled THEN <<"aws">> ELSE <<>>)
    ELSE SelectSeq(requested, LAMBDA n : n \in enabled)

TagEnvProd == <<"Env", "=", "prod">>
TagNoEquals == <<"Envprod">>
TagTwoEquals == <<"a", "=", "b", "=", "c">>
Date0102 == <<"2", "0", "2", "4", "-", "0", "1", "-", "0", "2">>
Date0104 == <<"2", "0", "2", "4", "-", "0", "1", "-", "0", "4">>
DateMonth13 == <<"2", "0", "2", "4", "-", "1", "3", "-", "0", "1">>
DateFeb30 == <<"2", "0", "2", "4", "-", "0", "2", "-", "3", "0">>
DateShort == <<"2", "0", "2", "4", "-", "1", "-", "2">>
DateSlashes == <<"0", "1", "/", "0", "4", "/", "2", "0", "2", "4">>
DateWord == <<"t", "o", "d", "a", "y">>

\* the option sets the command is run with
InventoryOpts ==
  {[NoOpts EXCEPT !.Providers = pr, !.Tags = tg, !.CreatedAfter = ca, !.CreatedBefore = cb] :
     pr \in {<<"aws">>, <<"gcp", "all">>},
     tg \in {<<>>, <<TagEnvProd>>},
     ca \in {<<>>},
     cb \in {<<>>}}
  \cup
  {[NoOpts EXCEPT !.Providers = <<"aws">>, !.Tags = tg, !.CreatedAfter = ca, !.CreatedBefore = cb] :
     tg \in {<<TagEnvProd>>, <<TagNoEquals>>, <<TagEnvProd, TagNoEquals>>, <<TagTwoEquals>>},
     ca \in {Date0102, DateMonth13, DateShort, DateWord},
     cb \in {Date0104, DateFeb30, DateSlashes}}

\* the configured providers that are enabled
EnabledSets == {{}, {"aws"}}

\* runInventoryCommand up to the receive loop of GetResources: the filters
\* are parsed, the providers chosen, the provider created and authenticated
\* and its GetResources entered.  One provider (aws) can be enabled, so the
\* provider loop runs at most once
StartInventory(opts, loaded, enabled, credsOK, validOK) ==
  /\ CallerFree
  /\ cmd.stage \in {"idle", "done"}
  /\ LET parsed == parseInventoryFilters(opts)
         valid == validProviders(opts.Providers, enabled)
         cur == [authenticated |-> authenticated, config |-> config, svcConfig |-> svcConfig]
         made == createProvider(cur, "aws", CfgRegions, credsOK, validOK)
         early(err) ==
           /\ cmd' = [stage |-> "done", opts |-> opts, err |-> err, calls |-> <<>>]
           /\ pc' = "idle"
           /\ op' = NoOp
           /\ ret' = NoRet
           /\ UNCHANGED <<providerVars, ctxDone>>
     IN IF ~loaded THEN early("configuration not loaded")
        ELSE IF parsed.err /= "nil" THEN early("failed to parse filters")
        ELSE IF enabled = {} THEN early("nil")
        ELSE IF valid = <<>> THEN early("nil")
        ELSE /\ authenticated' = made.p.authenticated
             /\ config' = made.p.config
             /\ svcConfig' = made.p.svcConfig
             /\ ctxDone' = FALSE
             /\ IF ~made.provider
                  THEN /\ cmd' = [stage |-> "done", opts |-> opts, err |-> "nil",
                                  calls |-> <<"CreateProvider", "Authenticate">>]
                       /\ pc' = "idle"
                       /\ op' = NoOp
                       /\ ret' = NoRet
                  ELSE /\ cmd' = [stage |-> "fetching", opts |-> opts, err |-> "",
                                  calls |-> <<"CreateProvider", "Authenticate", "GetResources">>]
                       /\ op' = [name |-> "GetResources", rtype |-> "", id |-> "",
                                 filters |-> parsed.filters, fault |-> NoFault]
                       /\ IF ~IsAuthenticated(made.p.authenticated)
                            THEN /\ pc' = "returned"
                                 /\ ret' = Returned(<<>>, EmptyBag, NoStatus, ErrNotAuthenticated)
                            ELSE /\ pc' = "fanout"
                                 /\ ret' = NoRet
  /\ trace' = <<>>
  /\ ResetFan
  /\ UNCHANGED <<filterVars, registryVars, factoryRet, concVars, resolved, authAtSpawn>>

\* GetResources has returned: the resources are printed and the command ends
FinishInventory ==
  /\ cmd.stage = "fetching"
  /\ pc = "returned"
  /\ cmd' = [cmd EXCEPT !.stage = "done", !.err = "nil"]
  /\ UNCHANGED <<providerVars, pc, op, ret, trace, ctxDone, fanVars, filterVars,
                 registryVars, factoryRet, concVars, resolved, authAtSpawn>>

NextInventory ==
  \/ \E opts \in InventoryOpts, loaded \in BOOLEAN, enabled \in EnabledSets,
        credsOK \in BOOLEAN, validOK \in BOOLEAN :
       StartInventory(opts, loaded, enabled, credsOK, validOK)
  \/ \E t \in Tasks : \E fault \in QueryFaults(t) : RunTask(t, fault)
  \/ CloseResourceChan
  \/ CloseErrorChan
  \/ \E m \in BagToSet(resourceChan) : RecvResources(m)
  \/ RecvResourcesClosed
  \/ \E e \in BagToSet(errorChan) : RecvError(e)
  \/ RecvErrorClosed
  \/ FinishInventory

SpecInventory == Init /\ [][NextInventory]_vars

\* ------------------------------------------------------------------------
\* GetResources under the Go scheduler: a goroutine that can take a step
\* eventually takes one
\* ------------------------------------------------------------------------

\* the goroutine of one task: its collector call returns, then it sends
TaskStep(t) == \E fault \in QueryFaults(t) : RunTask(t, fault)

\* the goroutine that waits for the WaitGroup and closes both channels
Closer == CloseResourceChan \/ CloseErrorChan

\* one iteration of the caller's for/select loop
Receiver ==
  \/ \E m \in BagToSet(resourceChan) : RecvResources(m)
  \/ RecvResourcesClosed
  \/ \E e \in BagToSet(errorChan) : RecvError(e)
  \/ RecvErrorClosed

NextFair ==
  \/ GetResourcesStart(NoFilters)
  \/ \E t \in Tasks : TaskStep(t)
  \/ Closer
  \/ Receiver

\* the scheduler: the closer and the receive loop run whenever they can.
\* Whether a collector call returns is up to the network, not the scheduler:
\* no fairness is assumed of the tasks
Fairness ==
  /\ WF_vars(Closer)
  /\ WF_vars(Receiver)

SpecFair == InitCancel /\ [][NextFair]_vars /\ Fairness

\* ------------------------------------------------------------------------
\* Authenticate called by another goroutine during a GetResources call
\* ------------------------------------------------------------------------

\* GetResources up to its authentication check: IsAuthenticated reads the
\* flag under the read lock and releases the lock before it returns
GetResourcesCheck(filters) ==
  /\ StartCall("GetResources", "", "", filters, NoFault)
  /\ trace' = <<>>
  /\ ResetFan
  /\ authAtSpawn' = "none"
  /\ UNCHANGED <<providerVars, filterVars, providers, regRet, factoryRet, cmd,
                 concVars, resolved>>
  /\ IF ~IsAuthenticated(authenticated)
       THEN /\ pc' = "returned"
            /\ ret' = Returned(<<>>, EmptyBag, NoStatus, ErrNotAuthenticated)
       ELSE /\ pc' = "checked"
            /\ ret' = NoRet

\* the channels are made and the nine goroutines and the closer are started;
\* the flag is not read again
GetResourcesSpawn ==
  /\ pc = "checked"
  /\ pc' = "fanout"
  /\ authAtSpawn' = IF authenticated THEN "authenticated" ELSE "unauthenticated"
  /\ UNCHANGED <<providerVars, op, ret, trace, ctxDone, fanVars, filterVars,
                 providers, regRet, factoryRet, cmd, concVars, resolved>>

\* Authenticate(ctx, p.config) called by another goroutine while the
\* GetResources call is past its check: it holds p.mu from entry to return,
\* which GetResources no longer waits for
AuthenticateConcurrently(credsOK, validOK) ==
  /\ pc \in {"checked", "fanout"}
  /\ LET out == authenticateOutcome(
                    [authenticated |-> authenticated, config |-> config,
                     svcConfig |-> svcConfig], config, credsOK, validOK)
     IN /\ authenticated' = out.authenticated
        /\ config' = out.config
        /\ svcConfig' = out.svcConfig
  /\ UNCHANGED <<pc, op, ret, trace, ctxDone, fanVars, filterVars, sideVars>>

NextAuthRace ==
  \/ GetResourcesCheck(NoFilters)
  \/ GetResourcesSpawn
  \/ \E credsOK, validOK \in BOOLEAN : AuthenticateConcurrently(credsOK, validOK)
  \/ \E t \in Tasks : TaskStep(t)
  \/ Closer
  \/ Receiver

SpecAuthRace == InitCancel /\ [][NextAuthRace]_vars

\* ------------------------------------------------------------------------
\* One collector at a time, under every failure of its requests
\* ------------------------------------------------------------------------

\* a region of the partition with no resources of the account
RegionEU == "eu-west-1"

\* neither a region list nor a primary region
CfgBare == [kind |-> "aws", Regions |-> <<>>, Region |-> ""]

\* only a primary region, and not the hardcoded fallback
CfgPrimaryWest == [kind |-> "aws", Regions |-> <<>>, Region |-> RegionWest]

CollectConfigs == {CfgRegions, CfgDefault, CfgBare, CfgPrimaryWest}

RegionLists == {<<>>, <<RegionWest>>, <<RegionWest, RegionEast>>, <<RegionEast, RegionEU>>}

\* one type string per collector
CollectTypes ==
  {"ec2", "rds", "rds_cluster", "vpc", "security_group", "s3", "user", "role", "policy"}

CollectFilters ==
  {[NoFilters EXCEPT !.Regions = rg, !.Tags = tg] :
     rg \in RegionLists, tg \in {EmptyTags, TagFilterProd}}

\* the list request of each collector
ListApi(t) ==
  CASE t = "ec2.GetInstances" -> "ec2:DescribeInstances"
    [] t = "rds.GetDatabases" -> "rds:DescribeDBInstances"
    [] t = "rds.GetClusters" -> "rds:DescribeDBClusters"
    [] t = "vpc.GetVPCs" -> "ec2:DescribeVpcs"
    [] t = "vpc.GetSecurityGroups" -> "ec2:DescribeSecurityGroups"
    [] t = "s3.GetBuckets" -> "s3:ListBuckets"
    [] t = "iam.GetUsers" -> "iam:ListUsers"
    [] t = "iam.GetRoles" -> "iam:ListRoles"
    [] t = "iam.GetPolicies" -> "iam:ListPolicies"

RegionTasks ==
  {"ec2.GetInstances", "rds.GetDatabases", "rds.GetClusters", "vpc.GetVPCs",
   "vpc.GetSecurityGroups"}

EnrichmentCalls ==
  {Call(api, b, 1) : api \in {"s3:GetBucketLocation", "s3:GetBucketTagging"},
                     b \in {"b-1", "b-2"}}

\* any set of the requests a collector issues may fail
CollectFaults(t) ==
  IF t \in RegionTasks
    THEN SUBSET ({Call(ListApi(t), r, i) : r \in {RegionEast, RegionWest}, i \in 1..2}
                 \cup {Call(ListApi(t), RegionEU, 1)})
  ELSE IF t = "s3.GetBuckets"
    THEN SUBSET ({Call(ListApi(t), "", 1)} \cup EnrichmentCalls)
  ELSE SUBSET {Call(ListApi(t), "", i) : i \in 1..2}

\* an authenticated provider under each configuration
InitCollect ==
  /\ authenticated = TRUE
  /\ config \in CollectConfigs
  /\ svcConfig = config
  /\ pc = "idle"
  /\ op = NoOp
  /\ ret = NoRet
  /\ trace = <<>>
  /\ ctxDone = FALSE
  /\ taskOut = [t \in Tasks |-> NotRun]
  /\ resourceChan = EmptyBag
  /\ errorChan = EmptyBag
  /\ resClosed = FALSE
  /\ errClosed = FALSE
  /\ resNil = FALSE
  /\ errNil = FALSE
  /\ allResources = EmptyBag
  /\ errors = EmptyBag
  /\ fResource = NewResource("", "", "", "", "")
  /\ fFilters = NoFilters
  /\ fVerdict = NoVerdict
  /\ InitSide

\* getRegionsToQuery of the EC2, RDS and VPC services on one input
ResolveRegions(filterRegions) ==
  /\ resolved' = [done |-> TRUE, filterRegions |-> filterRegions,
                  ec2 |-> getRegionsToQuery(filterRegions, svcConfig),
                  rds |-> RDSgetRegionsToQuery(filterRegions, svcConfig),
                  vpc |-> VPCgetRegionsToQuery(filterRegions, svcConfig)]
  /\ UNCHANGED <<providerVars, pc, op, ret, trace, ctxDone, fanVars, filterVars,
                 providers, regRet, factoryRet, cmd, concVars, authAtSpawn>>

\* one query and one region resolution per provider: neither depends on
\* what was called before
NextCollect ==
  \/ /\ pc = "idle"
     /\ \E rt \in CollectTypes, filters \in CollectFilters :
          \E fault \in CollectFaults(Dispatch(rt)) : GetResourcesByType(rt, filters, fault)
  \/ /\ ~resolved.done
     /\ \E filterRegions \in RegionLists : ResolveRegions(filterRegions)

SpecCollect == InitCollect /\ [][NextCollect]_vars

\* ------------------------------------------------------------------------
\* Properties
\* ------------------------------------------------------------------------

RECURSIVE BagOfTasks(_)
BagOfTasks(ts) ==
  IF ts = {} THEN EmptyBag
  ELSE LET t == CHOOSE x \in ts : TRUE
       IN SeqToBag(taskOut[t].res) (+) BagOfTasks(ts \ {t})

\* the resources of the lists buffered in resourceChan
RECURSIVE ChanResources(_)
ChanResources(ms) ==
  IF ms = {} THEN EmptyBag
  ELSE LET m == CHOOSE x \in ms : TRUE
           one == SeqToBag(m)
       IN [e \in DOMAIN one |-> one[e] * CopiesIn(m, resourceChan)] (+) ChanResources(ms \ {m})

SucceededTasks == {t \in Tasks : taskOut[t].err = "nil"}
FailedTasks == {t \in Tasks : taskOut[t] /= NotRun /\ taskOut[t].err /= "nil"}

GetResourcesReturned == pc = "returned" /\ op.name = "GetResources"

QueryOps == {"GetResources", "GetResourcesByType", "GetResourceStatus"}

\* C1: when GetResources returns on an authenticated provider, all nine
\* tasks have run and the returned list is, as a multiset, the sum of the
\* lists of exactly the tasks whose collector returned no error; while the
\* call is in flight nothing a finished task sent is lost or duplicated.
C1_FanOutCompleteness ==
  /\ (GetResourcesReturned /\ authenticated) =>
       /\ \A t \in Tasks : taskOut[t] /= NotRun
       /\ ret.bag = BagOfTasks(SucceededTasks)
  /\ pc = "fanout" =>
       allResources (+) ChanResources(BagToSet(resourceChan)) = BagOfTasks(SucceededTasks)

C1_Witness ==
  /\ GetResourcesReturned
  /\ authenticated
  /\ FailedTasks = {"s3.GetBuckets", "iam.GetRoles"}
  /\ BagCardinality(ret.bag) > 0

\* C2: on an authenticated provider GetResources returns a nil error
\* whichever tasks failed; their errors end in the logged list only.
C2_CollectorErrorsNotReturned ==
  (GetResourcesReturned /\ authenticated) =>
    /\ ret.err = "nil"
    /\ BagToSet(errors) = {[task |-> t, cause |-> taskOut[t].err] : t \in FailedTasks}

C2_Witness ==
  /\ GetResourcesReturned
  /\ authenticated
  /\ FailedTasks = {"s3.GetBuckets", "iam.GetUsers", "iam.GetRoles", "iam.GetPolicies"}
  /\ ret.err = "nil"

C4_CancelledReturnsError ==
  (GetResourcesReturned /\ ctxDone) => ret.err /= "nil"

C6_FailedAuthenticateClearsFlag ==
  (pc = "returned" /\ op.name = "Authenticate" /\ ret.err /= "nil") => ~authenticated

DispatchTableStrings ==
  {"ec2", "virtual_machine", "instance", "s3", "bucket", "object_storage",
   "rds", "rds_instance", "database", "postgres", "postgresql", "mysql",
   "rds_cluster", "aurora", "cluster", "iam", "iam_user", "user", "iam_role",
   "role", "iam_policy", "policy", "vpc", "network", "security_group",
   "firewall", "sg"}

\* C7: on an authenticated provider GetResourcesByType invokes exactly one
\* collector for a string of the dispatch table and returns its list and
\* error unchanged; for any other string it invokes none and returns the
\* "unsupported resource type" error with no list.
C7_ByTypeDispatch ==
  (pc = "returned" /\ op.name = "GetResourcesByType" /\ authenticated) =>
    IF op.rtype \in DispatchTableStrings
      THEN /\ Len(trace) = 1
           /\ ret.list = trace[1].list
           /\ ret.err = trace[1].err
           /\ ret.err /= ErrUnsupportedType
      ELSE /\ trace = <<>>
           /\ ret.err = ErrUnsupportedType
           /\ ret.list = <<>>

C7_Witness ==
  /\ pc = "returned"
  /\ op.name = "GetResourcesByType"
  /\ authenticated
  /\ op.rtype = "aurora"
  /\ Len(trace) = 1
  /\ trace[1].name = "rds.GetClusters"
  /\ Len(ret.list) > 0

FirstSuccess == CHOOSE i \in 1..Len(trace) : trace[i].err = "nil" /\ \A j \in 1..(i - 1) : trace[j].err /= "nil"

\* C8: GetResourceStatus looks up EC2 first and S3 only when the EC2 lookup
\* returned an error; it returns the status of the first lookup that
\* succeeded, and "not found" exactly when every lookup failed.
C8_SequentialProbe ==
  (pc = "returned" /\ op.name = "GetResourceStatus" /\ authenticated) =>
    /\ Len(trace) \in {1, 2}
    /\ trace[1].name = "ec2.GetInstanceStatus"
    /\ Len(trace) = 2 <=> trace[1].err /= "nil"
    /\ Len(trace) = 2 => trace[2].name = "s3.GetBucketStatus"
    /\ ret.err = ErrNotFound <=> \A i \in 1..Len(trace) : trace[i].err /= "nil"
    /\ ret.err /= ErrNotFound => (ret.err = "nil" /\ ret.status = trace[FirstSuccess].status)

C8_Witness ==
  /\ pc = "returned"
  /\ op.name = "GetResourceStatus"
  /\ authenticated
  /\ Len(trace) = 2
  /\ trace[1].err /= "nil"
  /\ ret.err = "nil"
  /\ ret.status.State = "available"

\* the resources GetResources returns for empty filters when no request fails
HeldResources ==
  UNION {Range(Collect(t, NoFilters, svcConfig, NoFault).res) : t \in Tasks}

\* C9: for every resource the provider lists, GetResourceStatus of its id
\* returns no error and the resource's own state (no request failing).
C9_StatusOfEveryHeldResource ==
  (pc = "returned" /\ op.name = "GetResourceStatus" /\ authenticated /\ op.fault = NoFault) =>
    \A r \in HeldResources :
      r.ID = op.id => (ret.err = "nil" /\ ret.status.State = r.Status.State)

TagsMatch(resource, filters) ==
  \A k \in DOMAIN filters.Tags :
    k \in DOMAIN resource.Tags /\ resource.Tags[k] = filters.Tags[k]

\* C10 as stated: each of the five predicates accepts a resource only if it
\* carries every tag pair of the filter set.
C10_EveryPredicateChecksTags ==
  fVerdict.done =>
    /\ fVerdict.ec2 => TagsMatch(fResource, fFilters)
    /\ fVerdict.s3 => TagsMatch(fResource, fFilters)
    /\ fVerdict.rds => TagsMatch(fResource, fFilters)
    /\ fVerdict.iam => TagsMatch(fResource, fFilters)
    /\ fVerdict.vpc => TagsMatch(fResource, fFilters)

\* C10 amended: the S3, RDS, IAM and VPC predicates accept a resource only
\* if it carries every tag pair of the filter set; the EC2 predicate does
\* not look at tags, EC2 hands each pair (k, v) to DescribeInstances as the
\* server-side filter tag:k = v.
C10_TagClauseOutsideEC2 ==
  fVerdict.done =>
    /\ fVerdict.s3 => TagsMatch(fResource, fFilters)
    /\ fVerdict.rds => TagsMatch(fResource, fFilters)
    /\ fVerdict.iam => TagsMatch(fResource, fFilters)
    /\ fVerdict.vpc => TagsMatch(fResource, fFilters)
    /\ \A k \in DOMAIN fFilters.Tags :
         [Name |-> "tag", Key |-> k, Values |-> {fFilters.Tags[k]}] \in fVerdict.ec2api

C10_Witness ==
  /\ fVerdict.done
  /\ fVerdict.vpc
  /\ Cardinality(DOMAIN fFilters.Tags) = 2

\* ------------------------------------------------------------------------
\* Filters applied to the result of GetResources
\* ------------------------------------------------------------------------

GetResourcesSucceeded == GetResourcesReturned /\ ret.err = "nil"

\* C11: with a non-empty filters.Regions every resource GetResources returns
\* has its Region among the listed regions, IAM resources ("global") included
C11_RegionFilterHonoured ==
  (GetResourcesSucceeded /\ Len(op.filters.Regions) > 0) =>
    \A r \in BagToSet(ret.bag) : r.Region \in Range(op.filters.Regions)

\* the collector that produces resources of a kind
TaskOfKind(type) ==
  CASE type = "virtual_machine" -> "ec2.GetInstances"
    [] type = "object_storage" -> "s3.GetBuckets"
    [] type = "rds_instance" -> "rds.GetDatabases"
    [] type = "rds_cluster" -> "rds.GetClusters"
    [] type = "iam_user" -> "iam.GetUsers"
    [] type = "iam_role" -> "iam.GetRoles"
    [] type = "iam_policy" -> "iam.GetPolicies"
    [] type = "vpc" -> "vpc.GetVPCs"
    [] type = "security_group" -> "vpc.GetSecurityGroups"
    [] OTHER -> ""

\* the names of a kind: the kind itself, the strings GetResourcesByType maps
\* to its collector, and the name of its service
KindNames(type) ==
  {type} \cup {n \in TypeStrings : Dispatch(n) = TaskOfKind(type)}
  \cup (CASE type \in {"rds_instance", "rds_cluster"} -> {"rds"}
          [] type \in {"iam_user", "iam_role", "iam_policy"} -> {"iam"}
          [] OTHER -> {})

\* C12: with a non-empty filters.ResourceTypes every resource GetResources
\* returns has a kind that is one of the listed types or an alias of one
\* (case-insensitively); sibling kinds of the same collector are not returned
C12_TypeFilterHonoured ==
  (GetResourcesSucceeded /\ Len(op.filters.ResourceTypes) > 0) =>
    \A r \in BagToSet(ret.bag) :
      \E i \in 1..Len(op.filters.ResourceTypes) :
        \E n \in KindNames(r.Type) : EqualFold(op.filters.ResourceTypes[i], n)

\* C13: with a non-empty filters.Status every resource GetResources returns,
\* of every kind, has its Status.State among the listed states
C13_StatusFilterHonoured ==
  (GetResourcesSucceeded /\ Len(op.filters.Status) > 0) =>
    \A r \in BagToSet(ret.bag) : r.Status.State \in Range(op.filters.Status)

\* ------------------------------------------------------------------------
\* The creation window
\* ------------------------------------------------------------------------

StrictlyInsideWindow(resource, filters) ==
  /\ filters.CreatedAfter /= NoTime => filters.CreatedAfter[1] < resource.CreatedAt
  /\ filters.CreatedBefore /= NoTime => resource.CreatedAt < filters.CreatedBefore[1]

\* C14: the creation window is open at both ends: a predicate accepts a
\* resource only if CreatedAfter < CreatedAt < CreatedBefore, so a resource
\* created exactly at either limit is rejected
C14_StrictCreationWindow ==
  fVerdict.done =>
    ((fVerdict.ec2 \/ fVerdict.s3 \/ fVerdict.rds \/ fVerdict.iam \/ fVerdict.vpc)
       => StrictlyInsideWindow(fResource, fFilters))

\* ------------------------------------------------------------------------
\* The plugin registry
\* ------------------------------------------------------------------------

\* C15: Register fails and leaves the map as it was for a nil provider, an
\* empty name or a name already bound; otherwise it binds the name to the
\* provider and changes no other binding
C15_RegisterContract ==
  [][\A p \in RegistryProviders :
       Register(p) =>
         IF p = NilProvider \/ Name(p) = "" \/ Name(p) \in DOMAIN providers
           THEN regRet'.err /= "nil" /\ providers' = providers
           ELSE /\ regRet'.err = "nil"
                /\ DOMAIN providers' = DOMAIN providers \cup {Name(p)}
                /\ providers'[Name(p)] = p
                /\ \A n \in DOMAIN providers : providers'[n] = providers[n]]_vars

\* a second instance was offered for a bound name and refused
C15_Witness ==
  /\ regRet.op = "Register"
  /\ regRet.err /= "nil"
  /\ regRet.name \in DOMAIN providers
  /\ providers[regRet.name] /= regRet.provider
  /\ Cardinality(DOMAIN providers) >= 2

\* C16 as stated: a binding, once made, is never removed and never replaced
C16_AppendOnly ==
  [][\A n \in DOMAIN providers :
       n \in DOMAIN providers' /\ providers'[n] = providers[n]]_vars

\* C16 amended: a binding is never replaced by another instance and is
\* removed only by a successful Unregister of its name; while it stands,
\* Get returns the registered instance
C16_RemovedOnlyByUnregister ==
  [][/\ \A n \in DOMAIN providers :
          \/ n \in DOMAIN providers' /\ providers'[n] = providers[n]
          \/ /\ n \notin DOMAIN providers'
             /\ regRet'.op = "Unregister" /\ regRet'.name = n /\ regRet'.err = "nil"
     /\ (regRet'.op = "Get" /\ regRet'.name \in DOMAIN providers) =>
          (regRet'.err = "nil" /\ regRet'.provider = providers[regRet'.name])]_vars

\* a name was unregistered while another binding stayed
C16_Witness ==
  /\ regRet.op = "Unregister"
  /\ regRet.err = "nil"
  /\ regRet.name \notin DOMAIN providers
  /\ DOMAIN providers /= {}

\* C17: every read agrees with the current bindings: List is the bound names
\* in ascending order without duplicates, Count is their number,
\* GetProviderInfo has one entry per bound name, Exists and Get succeed
\* exactly for the bound names, and Get after Register returns the instance
C17_ReadsAgreeWithBindings ==
  /\ regRet.op = "List" =>
       /\ Range(regRet.names) = DOMAIN providers
       /\ \A i \in 1..Len(regRet.names) : \A j \in 1..Len(regRet.names) :
            i < j => StrLess(regRet.names[i], regRet.names[j])
  /\ regRet.op = "Count" => regRet.count = Len(sortStrings(CHOOSE o \in RangeOrders(providers) : TRUE))
  /\ regRet.op = "GetProviderInfo" =>
       /\ Len(regRet.info) = Cardinality(DOMAIN providers)
       /\ {regRet.info[i].Name : i \in 1..Len(regRet.info)} = DOMAIN providers
  /\ regRet.op = "GetAll" => DOMAIN regRet.all = DOMAIN providers
  /\ regRet.op = "Exists" => (regRet.exists <=> regRet.name \in DOMAIN providers)
  /\ regRet.op = "Get" =>
       /\ regRet.err = "nil" <=> regRet.name \in DOMAIN providers
       /\ regRet.err = "nil" => regRet.provider = providers[regRet.name]
  /\ (regRet.op = "Register" /\ regRet.err = "nil") =>
       (regRet.name \in DOMAIN providers /\ providers[regRet.name] = regRet.provider)

\* List was called with every name bound
C17_Witness ==
  /\ regRet.op = "List"
  /\ Len(regRet.names) = Cardinality(RegistryNames)

\* ------------------------------------------------------------------------
\* The provider factory
\* ------------------------------------------------------------------------

\* C18: CreateProvider returns a provider only when Authenticate succeeded on
\* it, so the provider is authenticated; an unsupported name or a wrong
\* configuration type gives an error without any Authenticate call; a failed
\* Authenticate is called once and its error is returned, with no provider
C18_FactoryReturnsAuthenticated ==
  factoryRet.called =>
    /\ factoryRet.provider =>
         /\ authenticated
         /\ factoryRet.err = <<>>
         /\ factoryRet.authCalls = 1
         /\ factoryRet.authErr = "nil"
    /\ ~factoryRet.provider => factoryRet.err /= <<>>
    /\ (factoryRet.name /= "aws" \/ factoryRet.cfg.kind = "other") =>
         /\ ~factoryRet.provider
         /\ factoryRet.authCalls = 0
    /\ (factoryRet.authCalls > 0 /\ factoryRet.authErr /= "nil") =>
         /\ ~factoryRet.provider
         /\ factoryRet.authCalls = 1
         /\ factoryRet.err[Len(factoryRet.err)] = factoryRet.authErr
    /\ (factoryRet.provider /\ pc = "returned") => ret.err /= ErrNotAuthenticated

\* Authenticate failed inside CreateProvider
C18_Witness ==
  /\ factoryRet.called
  /\ factoryRet.authCalls = 1
  /\ factoryRet.authErr = ErrValidationFailed
  /\ ~factoryRet.provider

\* ------------------------------------------------------------------------
\* The inventory command
\* ------------------------------------------------------------------------

\* the dates among the inputs that are YYYY-MM-DD dates
WellFormedDates == {Date0102, Date0104}

\* a tag string without "=", or a date given that is not a YYYY-MM-DD date
Malformed(opts) ==
  \/ \E i \in 1..Len(opts.Tags) : "=" \notin Range(opts.Tags[i])
  \/ opts.CreatedAfter /= <<>> /\ opts.CreatedAfter \notin WellFormedDates
  \/ opts.CreatedBefore /= <<>> /\ opts.CreatedBefore \notin WellFormedDates

\* C19: a run of the inventory command on malformed filter input ends with
\* an error and makes no call: no provider is created, Authenticate and
\* GetResources are not called and no fetch is in progress
C19_MalformedInputStopsBeforeFetch ==
  (cmd.stage /= "idle" /\ Malformed(cmd.opts)) =>
    /\ cmd.stage = "done"
    /\ cmd.err \notin {"", "nil"}
    /\ cmd.calls = <<>>
    /\ pc /= "fanout"
    /\ taskOut = [t \in Tasks |-> NotRun]

\* a run was refused for a date that is not in the calendar, its tags being fine
C19_Witness ==
  /\ cmd.stage = "done"
  /\ cmd.err = "failed to parse filters"
  /\ cmd.opts.Tags = <<TagEnvProd>>
  /\ cmd.opts.CreatedAfter = Date0102
  /\ cmd.opts.CreatedBefore = DateFeb30

\* ------------------------------------------------------------------------
\* The kinds of the resource model
\* ------------------------------------------------------------------------

\* the ResourceType constants of pkg/models
ResourceTypeEnum ==
  {"virtual_machine", "container", "function", "cluster",
   "object_storage", "block_storage", "file_storage", "database",
   "vpc", "subnet", "load_balancer", "security_group", "gateway",
   "user", "role", "policy", "secret",
   "metric", "alarm", "dashboard", "unknown"}

\* C20: every resource GetResources or GetResourcesByType returns has a Type
\* that is a member of the ResourceType enumeration
C20_KindInEnumeration ==
  (pc = "returned" /\ op.name \in {"GetResources", "GetResourcesByType"} /\ ret.err = "nil") =>
    \A r \in BagToSet(ret.bag) \cup Range(ret.list) : r.Type \in ResourceTypeEnum

\* every collector call of a GetResources call in progress eventually returns
EveryTaskRan == \A t \in Tasks : taskOut[t] /= NotRun

CollectorsReturn == (pc = "fanout") ~> (pc /= "fanout" \/ EveryTaskRan)

\* C21: if every collector call eventually returns, a GetResources call
\* that has started its tasks eventually returns; it returns only after all
\* nine tasks have run and both channels are closed; and while the call is
\* in progress neither channel is full, so that no send of a task blocks.
C21_TerminatesAndJoins ==
  /\ [](GetResourcesReturned => (EveryTaskRan /\ resClosed /\ errClosed))
  /\ [](pc = "fanout" =>
          /\ BagCardinality(resourceChan) < ChanCap
          /\ BagCardinality(errorChan) < ChanCap)
  /\ CollectorsReturn => ((pc = "fanout") ~> GetResourcesReturned)

C21_Witness ==
  /\ GetResourcesReturned
  /\ FailedTasks = {"s3.GetBuckets"}
  /\ resClosed /\ errClosed
  /\ BagCardinality(ret.bag) > 0

WinnersOf(n) == {w \in winners : Name(w.provider) = n}

\* a Register call with a non-nil, named provider that has returned
ReturnedRegister(g) ==
  /\ proc[g].pc = "returned"
  /\ proc[g].op = "Register"
  /\ proc[g].provider /= NilProvider
  /\ Name(proc[g].provider) /= ""

\* C22: however Register calls of several goroutines interleave, at most
\* one call per name returns nil and every other call that has returned
\* failed with "already registered" after the winner returned; the map binds
\* a name only to the instance of the call that wins, and what Get, Exists
\* and List return is no binding or the winner's instance or name.
C22_RegistrationAtomic ==
  /\ \A n \in ConcNames : Cardinality(WinnersOf(n)) <= 1
  /\ \A g \in Procs :
       ReturnedRegister(g) =>
         /\ proc[g].err \in {"nil", "provider already registered"}
         /\ Cardinality(WinnersOf(proc[g].name)) = 1
         /\ proc[g].err = "nil" =>
              [proc |-> g, provider |-> proc[g].provider] \in winners
  /\ \A n \in DOMAIN providers :
       \/ \E w \in WinnersOf(n) : w.provider = providers[n]
       \/ /\ WinnersOf(n) = {}
          /\ \E g \in Procs : /\ proc[g].pc = "unlock"
                                /\ proc[g].err = "nil"
                                /\ proc[g].provider = providers[n]
  /\ \A g \in Procs :
       (proc[g].pc = "returned" /\ proc[g].op \in {"Get", "Exists", "List"}) =>
         /\ (proc[g].op = "Get" /\ proc[g].err = "nil") =>
              \E w \in WinnersOf(proc[g].name) : w.provider = proc[g].got
         /\ (proc[g].op = "Get" /\ proc[g].err /= "nil") => proc[g].got = NilProvider
         /\ (proc[g].op = "Exists" /\ proc[g].found) => WinnersOf(proc[g].name) /= {}
         /\ \A i \in 1..Len(proc[g].names) : WinnersOf(proc[g].names[i]) /= {}

\* three goroutines registered instances of one name: one won, two lost,
\* and the map holds the winner's instance
C22_Witness ==
  /\ \A g \in Procs : ReturnedRegister(g) /\ proc[g].name = "aws"
  /\ Cardinality({g \in Procs : proc[g].err = "provider already registered"}) = 2
  /\ \E g \in Procs : proc[g].err = "nil" /\ providers["aws"] = proc[g].provider
  /\ \E g, h \in Procs : proc[g].provider /= proc[h].provider

\* a GetResourcesByType call that has returned from the collector t
ReturnedFrom(ts) ==
  /\ pc = "returned"
  /\ op.name = "GetResourcesByType"
  /\ Dispatch(op.rtype) \in ts

\* the regions the collector of the returned call resolved
CallRegions ==
  LET t == Dispatch(op.rtype)
  IN CASE t = "ec2.GetInstances" -> getRegionsToQuery(op.filters.Regions, svcConfig)
       [] t \in {"rds.GetDatabases", "rds.GetClusters"} ->
            RDSgetRegionsToQuery(op.filters.Regions, svcConfig)
       [] t \in {"vpc.GetVPCs", "vpc.GetSecurityGroups"} ->
            VPCgetRegionsToQuery(op.filters.Regions, svcConfig)

\* what a collector obtains from one region when no request fails
RegionResult(t, region, filters) ==
  CASE t = "ec2.GetInstances" -> getInstancesInRegion(region, filters, NoFault).res
    [] t = "rds.GetDatabases" -> getDatabasesInRegion(region, filters, NoFault).res
    [] t = "rds.GetClusters" -> getClustersInRegion(region, filters, NoFault).res
    [] t = "vpc.GetVPCs" -> getVPCsInRegion(region, filters, NoFault).res
    [] t = "vpc.GetSecurityGroups" -> getSecurityGroupsInRegion(region, filters, NoFault).res

\* the items the list request of a collector has to page through in a region
RegionItems(t, region, filters) ==
  CASE t = "ec2.GetInstances" -> Flatten(DescribeInstancesPages(region, buildEC2Filters(filters)))
    [] t = "rds.GetDatabases" -> WorldDBInstances(region)
    [] t = "rds.GetClusters" -> WorldDBClusters(region)
    [] t = "vpc.GetVPCs" -> WorldVpcs(region)
    [] t = "vpc.GetSecurityGroups" -> WorldSecurityGroups(region)

\* the number of page requests a region takes (one for an empty region)
PageRequests(items) ==
  IF Len(items) = 0 THEN 1 ELSE (Len(items) + PageSize - 1) \div PageSize

\* some page request of the region is among the failing requests
RegionFetchFails(t, region, filters, fault) ==
  \E i \in 1..PageRequests(RegionItems(t, region, filters)) :
    Call(ListApi(t), region, i) \in fault

RECURSIVE ConcatSucceeded(_, _, _, _)
ConcatSucceeded(t, regions, filters, fault) ==
  IF regions = <<>> THEN <<>>
  ELSE (IF RegionFetchFails(t, Head(regions), filters, fault) THEN <<>>
        ELSE RegionResult(t, Head(regions), filters))
       \o ConcatSucceeded(t, Tail(regions), filters, fault)

\* C23: a region-scoped collector returns a nil error whatever regions fail,
\* and its list is the concatenation, in the order of the resolved regions,
\* of the results of exactly the regions none of whose page requests failed.
C23_FailingRegionsSkipped ==
  ReturnedFrom(RegionTasks) =>
    /\ ret.err = "nil"
    /\ ret.list = ConcatSucceeded(Dispatch(op.rtype), CallRegions, op.filters, op.fault)

\* the first of two regions failed and the second one's resources are returned
C23_Witness ==
  /\ ReturnedFrom(RegionTasks)
  /\ op.filters.Regions = <<RegionWest, RegionEast>>
  /\ RegionFetchFails(Dispatch(op.rtype), RegionWest, op.filters, op.fault)
  /\ ~RegionFetchFails(Dispatch(op.rtype), RegionEast, op.filters, op.fault)
  /\ ret.list /= <<>>
  /\ \A i \in 1..Len(ret.list) : ret.list[i].Region = RegionEast

\* the collectors that list a whole account, not one region at a time
AccountTasks == {"iam.GetUsers", "iam.GetRoles", "iam.GetPolicies", "s3.GetBuckets"}

\* the items the list request of an account-wide collector pages through
AccountItems(t) ==
  CASE t = "iam.GetUsers" -> WorldUsers
    [] t = "iam.GetRoles" -> WorldRoles
    [] t = "iam.GetPolicies" -> WorldPolicies
    [] t = "s3.GetBuckets" -> WorldBuckets

\* the first list request of the returned call succeeded and carried items
FirstPageObtained ==
  /\ AccountItems(Dispatch(op.rtype)) /= <<>>
  /\ Call(ListApi(Dispatch(op.rtype)), "", 1) \notin op.fault

\* C24: an account-wide collector (IAM users, roles, policies, S3 buckets)
\* that has obtained at least one page of items never returns an error,
\* whatever request fails afterwards.
C24_NoErrorAfterFirstPage ==
  (ReturnedFrom(AccountTasks) /\ FirstPageObtained) => ret.err = "nil"

\* the ids of a resource list
IdsOf(list) == {list[i].ID : i \in 1..Len(list)}

\* the collectors that enrich each listed item with further requests
EnrichingTasks == {"s3.GetBuckets", "iam.GetUsers", "iam.GetRoles"}

\* C25: when only enrichment requests fail, an enriching collector returns
\* the same set of resource ids as it returns when every request succeeds,
\* under every filter set.
C25_EnrichmentKeepsIds ==
  (ReturnedFrom(EnrichingTasks) /\ op.fault \subseteq EnrichmentCalls) =>
    /\ ret.err = "nil"
    /\ IdsOf(ret.list) =
         IdsOf(Collect(Dispatch(op.rtype), op.filters, svcConfig, NoFault).res)

\* the fallback chain of the region resolution
FallbackChain(filterRegions, cfg) ==
  IF filterRegions /= <<>> THEN filterRegions
  ELSE IF cfg.Regions /= <<>> THEN cfg.Regions
  ELSE IF cfg.Region /= "" THEN <<cfg.Region>>
  ELSE <<"us-east-1">>

\* C26: getRegionsToQuery of the EC2, the RDS and the VPC service each return
\* the filter's regions if there are any, else the configured region list if
\* it is non-empty, else the one configured primary region if it is set, else
\* ["us-east-1"]; the result is never empty and the three services agree.
C26_RegionFallbackChain ==
  resolved.done =>
    /\ resolved.ec2 = FallbackChain(resolved.filterRegions, config)
    /\ resolved.rds = resolved.ec2
    /\ resolved.vpc = resolved.ec2
    /\ Len(resolved.ec2) > 0

\* no filter regions and no region list: the primary region alone is resolved
C26_Witness ==
  /\ resolved.done
  /\ resolved.filterRegions = <<>>
  /\ config.Regions = <<>>
  /\ config.Region = RegionWest
  /\ resolved.ec2 = <<RegionWest>>
  /\ resolved.vpc = <<RegionWest>>

\* the tasks that complete in a step
Completing == {t \in Tasks : taskOut[t] = NotRun /\ taskOut'[t] /= NotRun}

\* the step sends the result list of task t, and nothing else, on the open
\* resource channel
SendsResult(t) ==
  /\ taskOut'[t].err = "nil"
  /\ ~resClosed /\ ~resClosed'
  /\ resourceChan' = resourceChan (+) SetToBag({taskOut'[t].res})
  /\ errorChan' = errorChan

\* the step sends the error of task t, and nothing else, on the open error
\* channel
SendsError(t) ==
  /\ taskOut'[t].err /= "nil"
  /\ ~errClosed /\ ~errClosed'
  /\ errorChan' = errorChan (+) SetToBag({[task |-> t, cause |-> taskOut'[t].err]})
  /\ resourceChan' = resourceChan

\* C27: in GetResources a task that completes sends exactly one message,
\* its result list or else its error, on exactly one channel, and that
\* channel is not closed; nothing else ever adds a message to a channel; a
\* channel is closed only when all nine tasks have completed; and a channel
\* never buffers more messages than its capacity.
C27_NoSendAfterClose ==
  [][pc = "fanout" =>
       /\ \A t \in Completing : SendsResult(t) \/ SendsError(t)
       /\ Completing = {} =>
            /\ BagCardinality(resourceChan') <= BagCardinality(resourceChan)
            /\ BagCardinality(errorChan') <= BagCardinality(errorChan)
       /\ (resClosed' /\ ~resClosed) => EveryTaskRan
       /\ (errClosed' /\ ~errClosed) => EveryTaskRan
       /\ BagCardinality(resourceChan') <= ChanCap
       /\ BagCardinality(errorChan') <= ChanCap]_vars

\* both channels are closed with one error and eight result lists sent, and
\* the receive loop has not taken any of them yet
C27_Witness ==
  /\ pc = "fanout"
  /\ resClosed /\ errClosed
  /\ FailedTasks = {"s3.GetBuckets"}
  /\ BagCardinality(errorChan) = 1
  /\ BagCardinality(resourceChan) = 8

\* C28: whatever Authenticate calls other goroutines make during a
\* GetResources call, the collection tasks are started only while the
\* provider is authenticated: no task is pending or run, and no list is
\* returned with a nil error, by a call that started its tasks after a
\* failed Authenticate had set the flag to false.
C28_TasksStartAuthenticated ==
  /\ pc = "fanout" => authAtSpawn = "authenticated"
  /\ (GetResourcesReturned /\ ret.err = "nil") => authAtSpawn = "authenticated"

\* the resources of one region in a list, in the order of the list
OfRegion(list, region) == SelectSeq(list, LAMBDA r : r.Region = region)

\* C29: in the result of a region-scoped collector every queried region is
\* present either with all the matching resources of all its pages or, when
\* any of its page requests failed, with none of them: never with the
\* pages read before the failure only.
C29_RegionAllOrNothing ==
  ReturnedFrom(RegionTasks) =>
    \A i \in 1..Len(CallRegions) :
      LET region == CallRegions[i]
          t == Dispatch(op.rtype)
      IN IF RegionFetchFails(t, region, op.filters, op.fault)
           THEN OfRegion(ret.list, region) = <<>>
           ELSE OfRegion(ret.list, region) = RegionResult(t, region, op.filters)

\* the second page of a region fails after its first page was read: the
\* region contributes nothing, the other region everything
C29_Witness ==
  /\ ReturnedFrom({"ec2.GetInstances"})
  /\ op.fault = {Call("ec2:DescribeInstances", RegionEast, 2)}
  /\ RegionFetchFails("ec2.GetInstances", RegionEast, op.filters, op.fault)
  /\ \E i \in 1..Len(CallRegions) : CallRegions[i] = RegionEast
  /\ OfRegion(ret.list, RegionEast) = <<>>
  /\ OfRegion(ret.list, RegionWest) /= <<>>

\* AWSProvider.GetSupportedResourceTypes
GetSupportedResourceTypes ==
  <<"ec2", "instance", "virtual_machine",
    "s3", "bucket", "object_storage",
    "rds", "rds_instance", "rds_cluster", "database",
    "postgres", "postgresql", "mysql", "aurora", "cluster",
    "iam", "iam_user", "iam_role", "iam_policy",
    "user", "role", "policy",
    "vpc", "network", "security_group", "firewall", "sg">>

\* a GetResources call asking for one advertised type has returned and none
\* of its collectors failed
ReturnedOneType ==
  /\ GetResourcesReturned
  /\ ret.err = "nil"
  /\ FailedTasks = {}
  /\ Len(op.filters.ResourceTypes) = 1
  /\ op.filters.ResourceTypes[1] \in Range(GetSupportedResourceTypes)

\* C30: every type string GetSupportedResourceTypes advertises is accepted by
\* the dispatch of GetResourcesByType, and GetResources asked for that one
\* type returns the same set of resources as GetResourcesByType returns for
\* it under the same filters without the type constraint.
C30_QueryPathsAgree ==
  /\ \A i \in 1..Len(GetSupportedResourceTypes) :
       Dispatch(GetSupportedResourceTypes[i]) /= ""
  /\ ReturnedOneType =>
       BagToSet(ret.bag) =
         Range(Collect(Dispatch(op.filters.ResourceTypes[1]),
                       [op.filters EXCEPT !.ResourceTypes = <<>>],
                       svcConfig, NoFault).res)


====
